---------------------------- MODULE Spec2Model ----------------------------
(***************************************************************************)
(* A model of the bias-anonymizer package: TalentProfileAnonymizer,       *)
(* EnhancedTalentProfileAnonymizer and JSONAnonymizer working on JSON      *)
(* documents.                                                              *)
(*                                                                         *)
(* JSON values are tagged by the one field of their record:                *)
(*   [s |-> <<tokens>>]   a string, as the sequence of its tokens          *)
(*   [n |-> i]            an integer                                       *)
(*   [z |-> 0]            null (None)                                      *)
(*   [o |-> <<[k, v]>>]   an object: key/value entries in insertion order  *)
(*   [a |-> <<values>>]   an array                                         *)
(* A field path such as  items[0].name  is the sequence of its dot         *)
(* separated segments, each a key with an optional bracket:                *)
(*   [k |-> "items", ix |-> 0], [k |-> "name", ix |-> NoIx].               *)
(***************************************************************************)
EXTENDS Integers, Sequences, FiniteSets, TLC

VARIABLES
    processed_paths, \* self._processed_paths of the EnhancedTalentProfileAnonymizer
    heap,       \* the documents in memory: the caller's and the working copy
    ref,        \* the heap cell the local variable `anonymized` refers to
    config,     \* self.profile_config of the TalentProfileAnonymizer
    args,       \* the per-call custom_fields_to_anonymize / _to_preserve
    pc,         \* position inside the running call
    todo,       \* fields_to_anonymize not yet processed by the for loop
    sh_i,       \* index of the next special_handling_fields entry
    input0,     \* the caller's document as it was when the call began
    pass,       \* 1 for the first call, 2 for the call on the first result
    first,      \* the document the first call returned
    result,     \* the value the finished call returned
    op,         \* the operation being run
    xpattern,   \* the pattern given to _expand_array_paths
    xpaths      \* the list _expand_array_paths returned

vars == <<processed_paths, heap, ref, config, args, pc, todo, sh_i, input0, pass, first, result, op,
          xpattern, xpaths>>

-----------------------------------------------------------------------------
(* JSON values *)

Null == [z |-> 0]

Str(toks) == [s |-> toks]

Num(i) == [n |-> i]

Obj(entries) == [o |-> entries]

Arr(items) == [a |-> items]

IsStr(v) == "s" \in DOMAIN v

IsNum(v) == "n" \in DOMAIN v

IsNull(v) == "z" \in DOMAIN v

IsObj(v) == "o" \in DOMAIN v

IsArr(v) == "a" \in DOMAIN v

EmptyObj == Obj(<<>>)

\* key in d
ObjHas(d, key) == \E i \in 1..Len(d.o) : d.o[i].k = key

\* d[key]
ObjGet(d, key) == d.o[CHOOSE i \in 1..Len(d.o) : d.o[i].k = key].v

\* d[key] = val done as a removal followed by an insertion: the key goes last
ObjSet_reinsert(d, key, val) ==
    Obj(Append(SelectSeq(d.o, LAMBDA e : e.k # key), [k |-> key, v |-> val]))

\* d[key] = val: an existing key keeps its position, a new key goes last
ObjSet(d, key, val) ==
    IF ObjHas(d, key)
    THEN Obj([i \in 1..Len(d.o) |->
                 IF d.o[i].k = key THEN [k |-> key, v |-> val] ELSE d.o[i]])
    ELSE Obj(Append(d.o, [k |-> key, v |-> val]))

\* del d[key]
ObjDel(d, key) == Obj(SelectSeq(d.o, LAMBDA e : e.k # key))

\* Python truthiness of a JSON value (`if value`)
Truthy(v) ==
    IF IsStr(v) THEN v.s # <<>>
    ELSE IF IsNum(v) THEN v.n # 0
    ELSE IF IsObj(v) THEN v.o # <<>>
    ELSE IF IsArr(v) THEN v.a # <<>>
    ELSE FALSE

-----------------------------------------------------------------------------
(* Field paths *)

NoIx == -1

Star == -2

Seg(key) == [k |-> key, ix |-> NoIx]

SegAt(key, i) == [k |-> key, ix |-> i]

\* the text of one dot separated part of a path: "name", "items[0]", "items[*]"
PartStr(seg) ==
    IF seg.ix = NoIx THEN seg.k
    ELSE IF seg.ix = Star THEN seg.k \o "[*]"
    ELSE seg.k \o "[" \o ToString(seg.ix) \o "]"

\* field_path.split("."): the parts as dictionary keys
SplitDot(path) == [i \in 1..Len(path) |-> PartStr(path[i])]

\* "[*]" in field
HasStar(path) == \E i \in 1..Len(path) : path[i].ix = Star

\* len(pattern.split("[*]")) - 1
StarCount(path) == Cardinality({i \in 1..Len(path) : path[i].ix = Star})


-----------------------------------------------------------------------------
(* Text and the entity detector.                                           *)
(* A string is the sequence of its tokens (words, separators).  The        *)
(* detector (Presidio's AnalyzerEngine with the registered recognizers)    *)
(* is a fixed table giving each token its entity type; placeholders and    *)
(* ordinary words have none.                                               *)

\* analyzer.analyze: the entity type of the span a token forms, or "NONE"
EntityType(tok) ==
    CASE tok = "elderly" -> "AGE_BIAS"
      [] tok = "he"      -> "GENDER_BIAS"
      [] tok = "x@y.org" -> "EMAIL_ADDRESS"
      [] OTHER           -> "NONE"

\* len(token)
TokLen(tok) ==
    CASE tok = "elderly"  -> 7
      [] tok = "he"       -> 2
      [] tok = "x@y.org"  -> 7
      [] tok = "engineer" -> 8
      [] tok = "1995"     -> 4
      [] tok = "2001"     -> 4
      [] tok = "06"       -> 2
      [] tok = "soon"     -> 4
      [] tok = "E7"       -> 2
      [] tok = "AWD001"   -> 6
      [] OTHER            -> 1

RECURSIVE TextLen(_)
\* len(text)
TextLen(toks) == IF toks = <<>> THEN 0 ELSE TokLen(Head(toks)) + TextLen(Tail(toks))

\* the operators map built by _configure_operators: entity type -> what a
\* detected span becomes (<<>> for redact, the new_value for replace)
configure_operators(strategy) ==
    IF strategy \in {"remove", "redact"}
    THEN [DEFAULT |-> <<>>]
    ELSE IF strategy = "replace"
    THEN [GENDER_BIAS   |-> <<"[GENDER]">>,
          AGE_BIAS      |-> <<"[AGE]">>,
          EMAIL_ADDRESS |-> <<"[EMAIL]">>,
          DEFAULT       |-> <<"[REDACTED]">>]
    ELSE [DEFAULT |-> <<>>]

\* AnonymizerEngine.anonymize for one span: the entity's operator, else DEFAULT
OperatorFor(operators, etype) ==
    IF etype \in DOMAIN operators THEN operators[etype] ELSE operators["DEFAULT"]

RECURSIVE ReplaceSpans(_, _)
ReplaceSpans(toks, operators) ==
    IF toks = <<>> THEN <<>>
    ELSE (IF EntityType(Head(toks)) = "NONE"
          THEN <<Head(toks)>>
          ELSE OperatorFor(operators, EntityType(Head(toks))))
         \o ReplaceSpans(Tail(toks), operators)

\* TalentProfileAnonymizer._anonymize_text
anonymize_text(text, operators) == ReplaceSpans(text, operators)

RECURSIVE anonymize_dict_values(_, _)
\* the loop of _anonymize_field / _anonymize_dict_values over the items of a list
AnonListItems(items, operators) ==
    [i \in 1..Len(items) |->
        IF IsStr(items[i]) THEN Str(anonymize_text(items[i].s, operators))
        ELSE IF IsObj(items[i]) THEN anonymize_dict_values(items[i], operators)
        ELSE items[i]]

\* TalentProfileAnonymizer._anonymize_dict_values
anonymize_dict_values(data, operators) ==
    Obj([i \in 1..Len(data.o) |->
        LET value == data.o[i].v IN
        [k |-> data.o[i].k,
         v |-> IF IsStr(value) THEN Str(anonymize_text(value.s, operators))
               ELSE IF IsObj(value) THEN anonymize_dict_values(value, operators)
               ELSE IF IsArr(value) THEN Arr(AnonListItems(value.a, operators))
               ELSE value]])

\* the parts _anonymize_field parses a path into: a key is a string, a
\* bracketed index an integer
ParseParts(path) ==
    LET RECURSIVE Go(_)
        Go(i) == IF i > Len(path) THEN <<>>
                 ELSE (IF path[i].ix = NoIx
                       THEN <<[key |-> path[i].k]>>
                       ELSE <<[key |-> path[i].k], [idx |-> path[i].ix]>>)
                      \o Go(i + 1)
    IN Go(1)

IsKeyPart(part) == "key" \in DOMAIN part

\* the last step of _anonymize_field: anonymize current[last_part]
AnonymizeFinal(current, last_part, operators) ==
    IF IsObj(current) /\ IsKeyPart(last_part) /\ ObjHas(current, last_part.key)
    THEN LET value == ObjGet(current, last_part.key) IN
         IF IsStr(value)
         THEN ObjSet(current, last_part.key, Str(anonymize_text(value.s, operators)))
         ELSE IF IsArr(value)
         THEN ObjSet(current, last_part.key, Arr(AnonListItems(value.a, operators)))
         ELSE current
    ELSE current

RECURSIVE AnonymizeAt(_, _, _)
\* the navigation of _anonymize_field: follow parts[:-1], then the last step;
\* a path that does not exist leaves the data as it is
AnonymizeAt(current, parts, operators) ==
    IF Len(parts) = 1 THEN AnonymizeFinal(current, parts[1], operators)
    ELSE LET part == Head(parts) IN
         IF IsObj(current) /\ IsKeyPart(part) /\ ObjHas(current, part.key)
         THEN ObjSet(current, part.key,
                     AnonymizeAt(ObjGet(current, part.key), Tail(parts), operators))
         ELSE IF IsArr(current) /\ ~IsKeyPart(part) /\ part.idx < Len(current.a)
         THEN Arr([current.a EXCEPT ![part.idx + 1] =
                     AnonymizeAt(@, Tail(parts), operators)])
         ELSE current

\* TalentProfileAnonymizer._anonymize_field
anonymize_field(data, field_path, operators) ==
    AnonymizeAt(data, ParseParts(field_path), operators)

-----------------------------------------------------------------------------
(* Wildcard expansion and the choice of the fields to anonymize *)

RECURSIVE Navigate(_, _)
\* the loop of _expand_array_paths over base_path.split("."):
\* `if part and isinstance(current, dict): current = current.get(part, {})`
Navigate(current, keys) ==
    IF keys = <<>> THEN current
    ELSE IF IsObj(current)
    THEN Navigate(IF ObjHas(current, Head(keys)) THEN ObjGet(current, Head(keys))
                  ELSE EmptyObj,
                  Tail(keys))
    ELSE Navigate(current, Tail(keys))

\* the position of the first [*] of a pattern
StarPos(pattern) == CHOOSE i \in 1..Len(pattern) :
    /\ pattern[i].ix = Star
    /\ \A j \in 1..(i - 1) : pattern[j].ix # Star

\* base_path.split(".") of a pattern with one [*]: the parts before the [*]
BaseKeys(pattern) ==
    [i \in 1..StarPos(pattern) |->
        IF i = StarPos(pattern) THEN pattern[i].k ELSE PartStr(pattern[i])]

\* f"{base_path}[{i}].{suffix}" (f"{base_path}[{i}]" without a suffix)
IndexedPath(pattern, i) ==
    [j \in 1..Len(pattern) |->
        IF j = StarPos(pattern) THEN SegAt(pattern[j].k, i) ELSE pattern[j]]

\* TalentProfileAnonymizer._expand_array_paths: the list of paths
expand_array_paths(data, pattern) ==
    IF StarCount(pattern) = 1
    THEN LET current == Navigate(data, BaseKeys(pattern)) IN
         IF IsArr(current)
         THEN [i \in 1..Len(current.a) |-> IndexedPath(pattern, i - 1)]
         ELSE <<>>
    ELSE <<>>

Range(seq) == {seq[i] : i \in 1..Len(seq)}

\* TalentProfileAnonymizer._get_fields_to_anonymize
get_fields_to_anonymize(cfg, profile, custom_anonymize, custom_preserve) ==
    LET fields   == cfg.always_anonymize_fields \cup custom_anonymize
        preserve == cfg.preserve_fields \cup custom_preserve
        kept     == fields \ preserve
    IN  UNION {IF HasStar(field)
               THEN Range(expand_array_paths(profile, field))
               ELSE {field} : field \in kept}

-----------------------------------------------------------------------------
(* Special handling *)

RECURSIVE GetAt(_, _)
\* the loop of _get_field_value; a missing field gives None
GetAt(current, keys) ==
    IF keys = <<>> THEN current
    ELSE IF IsObj(current) /\ ObjHas(current, Head(keys))
    THEN GetAt(ObjGet(current, Head(keys)), Tail(keys))
    ELSE Null

\* TalentProfileAnonymizer._get_field_value
get_field_value(data, field_path) == GetAt(data, SplitDot(field_path))

RECURSIVE SetAt(_, _, _)
\* the loop of _set_field_value: a missing part on the way becomes {}
SetAt(current, keys, value) ==
    IF ~IsObj(current) THEN current
    ELSE IF Len(keys) = 1 THEN ObjSet(current, keys[1], value)
    ELSE ObjSet(current, Head(keys),
                SetAt(IF ObjHas(current, Head(keys))
                      THEN ObjGet(current, Head(keys)) ELSE EmptyObj,
                      Tail(keys), value))

\* TalentProfileAnonymizer._set_field_value
set_field_value(data, field_path, value) == SetAt(data, SplitDot(field_path), value)

\* hashlib.sha256(value.encode()).hexdigest()[:16] behind "HASH_": a
\* function of the text alone, one-to-one on the texts of the model
HashText(text) == <<"HASH_">> \o text

\* a hash salted with the name of the field
apply_hash_salted(data, field_path) ==
    LET value == get_field_value(data, field_path) IN
    IF Truthy(value) /\ IsStr(value)
    THEN set_field_value(data, field_path,
             Str(HashText(value.s \o <<field_path[Len(field_path)].k>>)))
    ELSE data

\* TalentProfileAnonymizer._apply_hash
apply_hash(data, field_path) ==
    LET value == get_field_value(data, field_path) IN
    IF Truthy(value) /\ IsStr(value)
    THEN set_field_value(data, field_path, Str(HashText(value.s)))
    ELSE data

\* a token re.search(r'\b(19|20)\d{2}\b') matches
IsYearToken(tok) == tok \in {"1995", "2001"}

\* the characters of a token that holds digits (any other token is one
\* character, or a word or a placeholder that holds no digit)
Chars(tok) ==
    CASE tok = "1995"   -> <<"1", "9", "9", "5">>
      [] tok = "2001"   -> <<"2", "0", "0", "1">>
      [] tok = "06"     -> <<"0", "6">>
      [] tok = "E7"     -> <<"E", "7">>
      [] tok = "AWD001" -> <<"AWD", "0", "0", "1">>
      [] OTHER          -> <<tok>>

RECURSIVE Flatten(_)
\* the characters of a text
Flatten(text) == IF text = <<>> THEN <<>> ELSE Chars(Head(text)) \o Flatten(Tail(text))

\* \d
IsDigit(c) == c \in {"0", "1", "2", "3", "4", "5", "6", "7", "8", "9"}

\* \w: a digit, a letter or "_"; the words of the documents are letters
IsWordChar(c) ==
    c \notin {" ", "-", ".", "/", ":", "@", "x@y.org", "[YEAR]", "[LEVEL]", "[AGE]",
              "[GENDER]", "[EMAIL]", "[REDACTED]"}

\* the pattern without its word boundaries, r'(19|20)\d{2}'
YearMatchAt_unanchored(s, i) ==
    /\ i + 3 <= Len(s)
    /\ \/ s[i] = "1" /\ s[i + 1] = "9"
       \/ s[i] = "2" /\ s[i + 1] = "0"
    /\ IsDigit(s[i + 2]) /\ IsDigit(s[i + 3])

\* r'\b(19|20)\d{2}\b' matches the characters s[i] .. s[i+3]
YearMatchAt(s, i) ==
    /\ i + 3 <= Len(s)
    /\ \/ s[i] = "1" /\ s[i + 1] = "9"
       \/ s[i] = "2" /\ s[i + 1] = "0"
    /\ IsDigit(s[i + 2]) /\ IsDigit(s[i + 3])
    /\ i = 1 \/ ~IsWordChar(s[i - 1])
    /\ i + 3 = Len(s) \/ ~IsWordChar(s[i + 4])

\* the four characters as the token of a document, when it is one
YearToken(chars) ==
    IF chars = <<"1", "9", "9", "5">> THEN <<"1995">>
    ELSE IF chars = <<"2", "0", "0", "1">> THEN <<"2001">>
    ELSE chars

\* re.search(r'\b(19|20)\d{2}\b', value): year_match.group() of the leftmost
\* match, or "[YEAR]"
YearOf(text) ==
    LET s == Flatten(text)
        hits == {i \in 1..Len(s) : YearMatchAt(s, i)}
    IN  IF hits # {}
        THEN LET i == CHOOSE j \in hits : \A h \in hits : j <= h
             IN  YearToken(SubSeq(s, i, i + 3))
        ELSE <<"[YEAR]">>

RECURSIVE apply_year_only(_, _)
\* TalentProfileAnonymizer._apply_year_only
apply_year_only(data, field_path) ==
    IF HasStar(field_path)
    THEN LET paths == expand_array_paths(data, field_path)
             RECURSIVE Each(_, _)
             Each(d, i) == IF i > Len(paths) THEN d
                           ELSE Each(apply_year_only(d, paths[i]), i + 1)
         IN  Each(data, 1)
    ELSE LET value == get_field_value(data, field_path) IN
         IF Truthy(value) /\ IsStr(value)
         THEN set_field_value(data, field_path, Str(YearOf(value.s)))
         ELSE data

\* the value of a decimal digit
DigitVal(c) ==
    CASE c = "0" -> 0 [] c = "1" -> 1 [] c = "2" -> 2 [] c = "3" -> 3 [] c = "4" -> 4
      [] c = "5" -> 5 [] c = "6" -> 6 [] c = "7" -> 7 [] c = "8" -> 8 [] c = "9" -> 9

\* the digits of a string after its sign, if it has one
Unsigned(s) == IF s # <<>> /\ s[1] \in {"-", "+"} THEN Tail(s) ELSE s

\* int(text) does not raise ValueError: an optional sign, then digits
ParsesAsInt(text) ==
    LET d == Unsigned(Flatten(text))
    IN  d # <<>> /\ \A i \in 1..Len(d) : IsDigit(d[i])

RECURSIVE DigitsVal(_)
\* the number a sequence of digits denotes
DigitsVal(d) ==
    IF d = <<>> THEN 0 ELSE 10 * DigitsVal(SubSeq(d, 1, Len(d) - 1)) + DigitVal(d[Len(d)])

\* int(text)
IntOf(text) ==
    LET s == Flatten(text)
    IN  IF s[1] = "-" THEN 0 - DigitsVal(Unsigned(s)) ELSE DigitsVal(Unsigned(s))

\* the label of _apply_categorization for a number
LevelOf(num_value) ==
    IF num_value <= 2 THEN <<"Direct">>
    ELSE IF num_value <= 4 THEN <<"Close">>
    ELSE IF num_value <= 6 THEN <<"Mid-level">>
    ELSE <<"Distant">>

\* _apply_categorization without the test `if value`: int(None) raises
\* TypeError and the placeholder is stored at a path that need not exist
apply_categorization_unguarded(data, field_path) ==
    LET value == get_field_value(data, field_path) IN
    IF IsNum(value)
    THEN set_field_value(data, field_path, Str(LevelOf(value.n)))
    ELSE IF IsStr(value) /\ ParsesAsInt(value.s)
    THEN set_field_value(data, field_path, Str(LevelOf(IntOf(value.s))))
    ELSE set_field_value(data, field_path, Str(<<"[LEVEL]">>))

\* TalentProfileAnonymizer._apply_categorization
apply_categorization(data, field_path) ==
    LET value == get_field_value(data, field_path) IN
    IF Truthy(value)
    THEN IF IsNum(value)
         THEN set_field_value(data, field_path, Str(LevelOf(value.n)))
         ELSE IF IsStr(value) /\ ParsesAsInt(value.s)
         THEN set_field_value(data, field_path, Str(LevelOf(IntOf(value.s))))
         ELSE set_field_value(data, field_path, Str(<<"[LEVEL]">>))
    ELSE data

RECURSIVE RemoveAt(_, _)
\* the loop of _apply_removal, then `del current[parts[-1]]`
RemoveAt(current, keys) ==
    IF ~(IsObj(current) /\ ObjHas(current, Head(keys))) THEN current
    ELSE IF Len(keys) = 1 THEN ObjDel(current, keys[1])
    ELSE ObjSet(current, Head(keys), RemoveAt(ObjGet(current, Head(keys)), Tail(keys)))

\* TalentProfileAnonymizer._apply_removal
apply_removal(data, field_path) == RemoveAt(data, SplitDot(field_path))

\* one turn of the loop of _apply_special_handling
apply_special_handling_entry(data, field_path, handling) ==
    IF handling = "hash" THEN apply_hash(data, field_path)
    ELSE IF handling = "year_only" THEN apply_year_only(data, field_path)
    ELSE IF handling = "categorize" THEN apply_categorization(data, field_path)
    ELSE IF handling = "remove" THEN apply_removal(data, field_path)
    ELSE data

-----------------------------------------------------------------------------
(* Cleanup *)

\* value == "" or value == [] or value == {} or value is None
IsEmptyValue(v) == v = Str(<<>>) \/ v = Arr(<<>>) \/ v = EmptyObj \/ v = Null

RECURSIVE clean_empty_structures(_)
\* the cleaned_list of _clean_empty_structures: dictionaries are cleaned and
\* kept when not empty; any other item is kept unless it is "" or None
CleanList(items) ==
    LET cleaned == [i \in 1..Len(items) |->
                       IF IsObj(items[i]) THEN clean_empty_structures(items[i])
                       ELSE items[i]]
    IN  SelectSeq(cleaned,
                  LAMBDA item : IF IsObj(item) THEN item.o # <<>>
                                ELSE item # Str(<<>>) /\ item # Null)

\* TalentProfileAnonymizer._clean_empty_structures
clean_empty_structures(data) ==
    LET Cleaned(value) ==
            IF IsEmptyValue(value) THEN value
            ELSE IF IsObj(value) THEN clean_empty_structures(value)
            ELSE IF IsArr(value) THEN Arr(CleanList(value.a))
            ELSE value
        entries == [i \in 1..Len(data.o) |->
                       [k |-> data.o[i].k, v |-> Cleaned(data.o[i].v)]]
    IN  Obj(SelectSeq(entries,
                      LAMBDA e : ~(IsEmptyValue(e.v)
                                   \/ (IsObj(e.v) /\ e.v.o = <<>>)
                                   \/ (IsArr(e.v) /\ e.v.a = <<>>))))

-----------------------------------------------------------------------------
(* analyze_profile *)

\* "BIAS" in result.entity_type
IsBiasType(etype) == etype \in {"AGE_BIAS", "GENDER_BIAS"}

\* the entity types analyzer.analyze finds in a text
EntityTypesIn(text) == {EntityType(text[i]) : i \in 1..Len(text)} \ {"NONE"}

\* min(100, bias_risk + pii_risk)
RiskScore(fields_with_bias, fields_with_pii) ==
    LET risk == Cardinality(fields_with_bias) * 3 + Cardinality(fields_with_pii) * 5
    IN  IF risk < 100 THEN risk ELSE 100

\* TalentProfileAnonymizer.analyze_profile: the report (the two field
\* lists as sets, and the score)
analyze_profile(cfg, profile) ==
    LET checked == {f \in cfg.always_anonymize_fields :
                       LET value == get_field_value(profile, f) IN
                       Truthy(value) /\ IsStr(value)}
        types(f) == EntityTypesIn(get_field_value(profile, f).s)
        bias == {f \in checked : \E t \in types(f) : IsBiasType(t)}
        pii  == {f \in checked : \E t \in types(f) : ~IsBiasType(t)}
    IN  [fields_with_bias |-> bias,
         fields_with_pii  |-> pii,
         risk_score       |-> RiskScore(bias, pii)]

-----------------------------------------------------------------------------
(* JSONAnonymizer.anonymize with the default AnonymizerConfig *)

\* AnonymizerConfig.operators (default)
JsonOperators ==
    [PERSON |-> "replace", EMAIL_ADDRESS |-> "mask", PHONE_NUMBER |-> "hash",
     LOCATION |-> "replace", DATE_TIME |-> "replace", CREDIT_CARD |-> "mask",
     IP_ADDRESS |-> "mask", BIAS_INDICATOR |-> "remove", DEFAULT |-> "replace"]

\* AnonymizerConfig.replacements (default)
JsonReplacements ==
    [PERSON |-> <<"[PERSON]">>, EMAIL_ADDRESS |-> <<"[EMAIL]">>,
     PHONE_NUMBER |-> <<"[PHONE]">>, LOCATION |-> <<"[LOCATION]">>,
     DATE_TIME |-> <<"[DATE]">>, DEFAULT |-> <<>>]

\* AnonymizerConfig(): the defaults of the dataclass (confidence_threshold
\* in tenths; no bias_categories: all categories)
AnonymizerConfigDefault ==
    [detect_bias          |-> TRUE,
     detect_pii           |-> TRUE,
     bias_categories      |-> {},
     confidence_threshold |-> 7,
     operators            |-> JsonOperators,
     replacements         |-> JsonReplacements,
     batch_size           |-> 100]

\* the category whose recognizer BiasRecognizerFactory.create_recognizer
\* builds finds the entity type
CategoryOf(etype) == IF etype = "AGE_BIAS" THEN "age" ELSE "gender"

\* self.analyzer.analyze(text, score_threshold=confidence_threshold) for one
\* token: the PII recognizers of AnalyzerEngine() always run, the bias
\* recognizers are added when detect_bias is set (those of bias_categories
\* if it names any); the spans of the model have score 1.0
JsonEntityType(cfg, tok) ==
    LET etype == EntityType(tok) IN
    IF cfg.confidence_threshold > 10 THEN "NONE"
    ELSE IF IsBiasType(etype)
    THEN (IF cfg.detect_bias /\ (cfg.bias_categories = {} \/ CategoryOf(etype) \in cfg.bias_categories)
          THEN etype ELSE "NONE")
    ELSE etype

\* the operator_type JSONAnonymizer._get_operators chooses for an entity type
JsonOperatorType(operators, etype) ==
    IF etype \in DOMAIN operators THEN operators[etype]
    ELSE IF IsBiasType(etype) \/ etype = "BIAS_INDICATOR" THEN "remove"
    ELSE IF "DEFAULT" \in DOMAIN operators THEN operators["DEFAULT"]
    ELSE "replace"

\* what the operator built by _get_operators for an operator_type makes of
\* one detected span
JsonApplyOperator(cfg, operator_type, etype, tok) ==
    IF operator_type = "replace"
    THEN (IF etype \in DOMAIN cfg.replacements THEN cfg.replacements[etype]
          ELSE IF "DEFAULT" \in DOMAIN cfg.replacements THEN cfg.replacements["DEFAULT"]
          ELSE <<"[", etype, "]">>)
    ELSE IF operator_type = "remove" THEN <<>>
    ELSE IF operator_type = "mask"
    THEN [i \in 1..(IF TokLen(tok) < 10 THEN TokLen(tok) ELSE 10) |-> "*"]
    ELSE IF operator_type = "hash" THEN <<"sha256:", tok>>
    ELSE IF operator_type = "keep" THEN <<tok>>
    ELSE <<"[", etype, "]">>

\* one detected span under the operator _get_operators gives its entity type
JsonSpanOutput(cfg, etype, tok) ==
    JsonApplyOperator(cfg, JsonOperatorType(cfg.operators, etype), etype, tok)

RECURSIVE JsonReplaceSpans(_, _)
JsonReplaceSpans(cfg, toks) ==
    IF toks = <<>> THEN <<>>
    ELSE (IF JsonEntityType(cfg, Head(toks)) = "NONE" THEN <<Head(toks)>>
          ELSE JsonSpanOutput(cfg, JsonEntityType(cfg, Head(toks)), Head(toks)))
         \o JsonReplaceSpans(cfg, Tail(toks))

\* not text.strip(): the text is empty or whitespace only
IsBlank(text) == \A i \in 1..Len(text) : text[i] = " "

\* JSONAnonymizer._anonymize_text
json_anonymize_text(cfg, text) ==
    IF IsBlank(text) THEN text ELSE JsonReplaceSpans(cfg, text)

\* a key as the pieces of its string: a string starts with another exactly
\* when its pieces start with the other's
KeyChars(key) == IF key = "names" THEN <<"name", "s">> ELSE <<key>>

\* keys_to_process is None
NoKeys == [none |-> TRUE, keys |-> {}]

\* keys_to_process is a set of key paths
KeySet(keys) == [none |-> FALSE, keys |-> keys]

\* a.startswith(b), on the pieces of the two strings
StartsWith(a, b) == Len(b) <= Len(a) /\ SubSeq(a, 1, Len(b)) = b

\* JSONAnonymizer._should_process_path
should_process_path(current_path, keys_to_process) ==
    \/ keys_to_process.none
    \/ current_path \in keys_to_process.keys
    \/ \E key \in keys_to_process.keys :
          \/ StartsWith(key, current_path \o <<".">>)
          \/ StartsWith(current_path, key)

RECURSIVE anonymize_recursive(_, _, _, _)
\* JSONAnonymizer._anonymize_recursive
anonymize_recursive(cfg, data, keys_to_process, current_path) ==
    LET Item(value, path) ==
            IF IsStr(value) THEN Str(json_anonymize_text(cfg, value.s))
            ELSE IF IsObj(value) \/ IsArr(value)
            THEN anonymize_recursive(cfg, value, keys_to_process, path)
            ELSE value
        new_path(key) == IF current_path = <<>> THEN KeyChars(key)
                         ELSE current_path \o <<".">> \o KeyChars(key)
        item_path(i) == current_path \o <<"[", ToString(i - 1), "]">>
    IN  IF IsObj(data)
        THEN Obj([i \in 1..Len(data.o) |->
                 [k |-> data.o[i].k,
                  v |-> IF should_process_path(new_path(data.o[i].k), keys_to_process)
                        THEN Item(data.o[i].v, new_path(data.o[i].k))
                        ELSE data.o[i].v]])
        ELSE IF IsArr(data)
        THEN Arr([i \in 1..Len(data.a) |->
                 IF \/ should_process_path(item_path(i), keys_to_process)
                    \/ should_process_path(current_path, keys_to_process)
                 THEN Item(data.a[i], item_path(i))
                 ELSE data.a[i]])
        ELSE data

-----------------------------------------------------------------------------
(* The inputs: documents, policies and per-call overrides *)

\* longest array of a document
MaxItems == 2

\* most rules (policy entries and per-call overrides together) of one call
MaxRules == 2

RECURSIVE SeqsUpTo(_, _)
\* the sequences over S of length at most n
SeqsUpTo(S, n) ==
    IF n = 0 THEN {<<>>}
    ELSE SeqsUpTo(S, n - 1) \cup
         {Append(q, x) : q \in {r \in SeqsUpTo(S, n - 1) : Len(r) = n - 1}, x \in S}

Entry(key, value) == [k |-> key, v |-> value]

ItemKinds ==
    {Obj(<<Entry("name", Str(<<"elderly", " ", "engineer">>)),
           Entry("date", Str(<<"1995", "-", "06">>)),
           Entry("level", Num(5))>>),
     Obj(<<Entry("name", Str(<<"engineer">>)),
           Entry("date", Str(<<"soon">>)),
           Entry("level", Str(<<"3">>))>>)}

Titles == {<<"elderly">>, <<"elderly", " ", "engineer">>}

\* profiles with a core object and an array of item objects
ProfileDocs ==
    {Obj(<<Entry("core", Obj(<<Entry("id", Str(<<"E7">>)),
                               Entry("title", Str(t)),
                               Entry("level", Num(3))>>)),
           Entry("items", Arr(items))>>) :
        t \in Titles, items \in SeqsUpTo(ItemKinds, MaxItems)}

MiscValues ==
    {Null, Str(<<>>), Arr(<<>>), EmptyObj, Num(0),
     Arr(<<Arr(<<>>)>>), Arr(<<EmptyObj>>), Arr(<<Str(<<>>), Null>>),
     Obj(<<Entry("b", Str(<<>>))>>), Arr(<<Arr(<<EmptyObj>>)>>),
     Arr(<<Str(<<"he">>), Num(1)>>), Arr(<<Num(1), Arr(<<>>)>>)}

\* profiles with a field holding an empty, null or nested value
OddDocs ==
    {Obj(<<Entry("core", Obj(<<Entry("title", Str(<<"he">>))>>)),
           Entry("misc", m)>>) : m \in MiscValues}

Docs == ProfileDocs \cup OddDocs

P_title == <<Seg("core"), Seg("title")>>

P_id == <<Seg("core"), Seg("id")>>

P_level == <<Seg("core"), Seg("level")>>

P_items == <<Seg("items")>>

P_misc == <<Seg("misc")>>

P_item_name == <<SegAt("items", Star), Seg("name")>>

P_item0_name == <<SegAt("items", 0), Seg("name")>>

P_item_date == <<SegAt("items", Star), Seg("date")>>

P_item_level == <<SegAt("items", Star), Seg("level")>>

Rule(kind, path, handling) == [kind |-> kind, path |-> path, handling |-> handling]

\* the entries a policy and a call are put together from
Rules ==
    {Rule("preserve", q, "") : q \in {P_title, P_id, P_item_name, P_item0_name}}
    \cup {Rule("always", q, "") : q \in {P_title, P_item_name, P_item0_name, P_items, P_misc}}
    \cup {Rule("custom_anonymize", P_title, ""),
          Rule("custom_preserve", P_title, ""),
          Rule("custom_preserve", P_item0_name, ""),
          Rule("strategy", <<>>, "replace")}
    \cup {Rule("special", P_id, "hash"), Rule("special", P_level, "categorize"),
          Rule("special", P_item_date, "year_only"), Rule("special", P_item_name, "hash"),
          Rule("special", P_item_level, "categorize"), Rule("special", P_item_date, "remove")}

\* the order in which special_handling_fields lists its entries
SpecialOrder ==
    <<Rule("special", P_id, "hash"), Rule("special", P_level, "categorize"),
      Rule("special", P_item_date, "year_only"), Rule("special", P_item_name, "hash"),
      Rule("special", P_item_level, "categorize"), Rule("special", P_item_date, "remove")>>

RECURSIVE SubsetsUpTo(_, _)
\* the subsets of S with at most n elements
SubsetsUpTo(S, n) ==
    IF n = 0 THEN {{}}
    ELSE LET smaller == SubsetsUpTo(S, n - 1)
         IN  smaller \cup {R \cup {x} : R \in smaller, x \in S}

RuleSets == SubsetsUpTo(Rules, MaxRules)

PathsOf(R, kind) == {r.path : r \in {x \in R : x.kind = kind}}

\* TalentProfileConfig built from a set of rules
ConfigOf(R) ==
    [preserve_fields         |-> PathsOf(R, "preserve"),
     always_anonymize_fields |-> PathsOf(R, "always"),
     special_handling_fields |-> SelectSeq(SpecialOrder, LAMBDA r : r \in R),
     anonymization_strategy  |-> IF Rule("strategy", <<>>, "replace") \in R
                                 THEN "replace" ELSE "redact"]

\* the optional arguments of anonymize_talent_profile
ArgsOf(R) ==
    [custom_anonymize |-> PathsOf(R, "custom_anonymize"),
     custom_preserve  |-> PathsOf(R, "custom_preserve")]

NoConfig == ConfigOf({})

NoArgs == ArgsOf({})

-----------------------------------------------------------------------------
(* The calls *)

\* an anonymizer that works on the caller's document in place
deepcopy_alias(source) == source

\* copy.deepcopy(profile): the copy is a new object, the working cell
deepcopy_target(source) == "work"

\* the document the local variable `anonymized` refers to
Anonymized == heap[ref]

\* the caller's document
CallerDoc == heap["caller"]

\* the position after the field loop, given what is left of it
AfterFields(left, cfg) ==
    IF left # {} THEN "fields"
    ELSE IF Len(cfg.special_handling_fields) > 0 THEN "special"
    ELSE "clean"

\* what every call starts from
Idle ==
    /\ processed_paths = {}
    /\ ref = "caller"
    /\ pc = "idle"
    /\ todo = {}
    /\ sh_i = 1
    /\ pass = 1
    /\ first = Null
    /\ result = Null
    /\ xpaths = <<>>

Init ==
    /\ \/ \E d \in Docs, R \in RuleSets,
             o \in {"anonymize_talent_profile", "analyze_profile"} :
             /\ heap = [caller |-> d, work |-> Null]
             /\ config = ConfigOf(R)
             /\ args = ArgsOf(R)
             /\ input0 = d
             /\ op = o
       \/ \E d \in Docs :
             /\ heap = [caller |-> d, work |-> Null]
             /\ config = NoConfig
             /\ args = NoArgs
             /\ input0 = d
             /\ op = "JSONAnonymizer.anonymize"
    /\ xpattern = <<>>
    /\ Idle

\* anonymize_talent_profile, up to the field loop: the deep copy and
\* _get_fields_to_anonymize
Begin ==
    /\ pc = "idle"
    /\ op = "anonymize_talent_profile"
    /\ LET target == deepcopy_target("caller")
           fields == get_fields_to_anonymize(config, CallerDoc,
                         args.custom_anonymize, args.custom_preserve)
       IN  /\ ref' = target
           /\ heap' = [heap EXCEPT ![target] = CallerDoc]
           /\ todo' = fields
           /\ pc' = AfterFields(fields, config)
    /\ sh_i' = 1
    /\ UNCHANGED <<processed_paths, config, args, input0, pass, first, result, op, xpattern, xpaths>>

\* one turn of `for field_path in fields_to_anonymize` (a set: any order)
AnonymizeField ==
    /\ pc = "fields"
    /\ \E field_path \in todo :
          /\ heap' = [heap EXCEPT ![ref] =
                 anonymize_field(Anonymized, field_path,
                     configure_operators(config.anonymization_strategy))]
          /\ todo' = todo \ {field_path}
          /\ pc' = AfterFields(todo \ {field_path}, config)
    /\ UNCHANGED <<processed_paths, ref, config, args, sh_i, input0, pass, first, result, op,
                   xpattern, xpaths>>

\* one turn of the loop of _apply_special_handling
SpecialHandling ==
    /\ pc = "special"
    /\ LET entry == config.special_handling_fields[sh_i] IN
       heap' = [heap EXCEPT ![ref] =
                   apply_special_handling_entry(Anonymized, entry.path, entry.handling)]
    /\ sh_i' = sh_i + 1
    /\ pc' = IF sh_i < Len(config.special_handling_fields) THEN "special" ELSE "clean"
    /\ UNCHANGED <<processed_paths, ref, config, args, todo, input0, pass, first, result, op,
                   xpattern, xpaths>>

\* _clean_empty_structures and the return
CleanAndReturn ==
    /\ pc = "clean"
    /\ LET cleaned == clean_empty_structures(Anonymized) IN
       /\ heap' = [heap EXCEPT ![ref] = cleaned]
       /\ result' = cleaned
    /\ pc' = "done"
    /\ UNCHANGED <<processed_paths, ref, config, args, todo, sh_i, input0, pass, first, op,
                   xpattern, xpaths>>

\* the caller anonymizes the returned document again, with the same policy
\* and arguments
CallAgain ==
    /\ pc = "done"
    /\ op = "anonymize_talent_profile"
    /\ pass = 1
    /\ heap' = [caller |-> result, work |-> Null]
    /\ ref' = "caller"
    /\ input0' = result
    /\ first' = result
    /\ pass' = 2
    /\ pc' = "idle"
    /\ result' = Null
    /\ UNCHANGED <<processed_paths, config, args, todo, sh_i, op, xpattern, xpaths>>

\* TalentProfileAnonymizer.analyze_profile
AnalyzeProfile ==
    /\ pc = "idle"
    /\ op = "analyze_profile"
    /\ result' = analyze_profile(config, CallerDoc)
    /\ pc' = "done"
    /\ UNCHANGED <<processed_paths, heap, ref, config, args, todo, sh_i, input0, pass, first, op,
                   xpattern, xpaths>>

\* JSONAnonymizer.anonymize(data) for a dict, all keys processed
JsonAnonymize ==
    /\ pc = "idle"
    /\ op = "JSONAnonymizer.anonymize"
    /\ LET target == deepcopy_target("caller")
           done   == anonymize_recursive(AnonymizerConfigDefault, CallerDoc, NoKeys, <<>>)
       IN  /\ ref' = target
           /\ heap' = [heap EXCEPT ![target] = done]
           /\ result' = done
    /\ pc' = "done"
    /\ UNCHANGED <<processed_paths, config, args, todo, sh_i, input0, pass, first, op, xpattern, xpaths>>

Next ==
    \/ Begin
    \/ AnonymizeField
    \/ SpecialHandling
    \/ CleanAndReturn
    \/ CallAgain
    \/ AnalyzeProfile
    \/ JsonAnonymize

Spec == Init /\ [][Next]_vars

-----------------------------------------------------------------------------
(* The entity detector fails: analyzer.analyze raises inside a call *)

RECURSIVE DictCallsDetector(_)
\* _anonymize_dict_values reaches a string, and so calls _anonymize_text
DictCallsDetector(data) ==
    \E i \in 1..Len(data.o) :
        LET value == data.o[i].v IN
        \/ IsStr(value)
        \/ IsObj(value) /\ DictCallsDetector(value)
        \/ /\ IsArr(value)
           /\ \E j \in 1..Len(value.a) :
                 IsStr(value.a[j]) \/ (IsObj(value.a[j]) /\ DictCallsDetector(value.a[j]))

RECURSIVE CallsDetector(_, _)
\* _anonymize_field, for these parts, calls _anonymize_text
CallsDetector(current, parts) ==
    IF Len(parts) = 1
    THEN /\ IsObj(current) /\ IsKeyPart(parts[1]) /\ ObjHas(current, parts[1].key)
         /\ LET value == ObjGet(current, parts[1].key) IN
            \/ IsStr(value)
            \/ /\ IsArr(value)
               /\ \E j \in 1..Len(value.a) :
                     IsStr(value.a[j]) \/ (IsObj(value.a[j]) /\ DictCallsDetector(value.a[j]))
    ELSE LET part == Head(parts) IN
         IF IsObj(current) /\ IsKeyPart(part) /\ ObjHas(current, part.key)
         THEN CallsDetector(ObjGet(current, part.key), Tail(parts))
         ELSE IF IsArr(current) /\ ~IsKeyPart(part) /\ part.idx < Len(current.a)
         THEN CallsDetector(current.a[part.idx + 1], Tail(parts))
         ELSE FALSE

RECURSIVE JsonCallsDetector(_)
\* _anonymize_recursive, all keys processed, reaches a string that is not
\* blank, and so calls analyzer.analyze
JsonCallsDetector(data) ==
    LET Item(value) == \/ IsStr(value) /\ ~IsBlank(value.s)
                       \/ (IsObj(value) \/ IsArr(value)) /\ JsonCallsDetector(value)
    IN  IF IsObj(data) THEN \E i \in 1..Len(data.o) : Item(data.o[i].v)
        ELSE IF IsArr(data) THEN \E i \in 1..Len(data.a) : Item(data.a[i])
        ELSE FALSE

\* a handler around the field loop that returns the working document
TalentDetectorHandled ==
    /\ pc = "fields"
    /\ \E field_path \in todo : CallsDetector(Anonymized, ParseParts(field_path))
    /\ result' = Anonymized
    /\ pc' = "raised"
    /\ UNCHANGED <<processed_paths, heap, ref, config, args, todo, sh_i, input0,
                   pass, first, op, xpattern, xpaths>>

\* analyzer.analyze raises in a turn of the field loop: _anonymize_text,
\* _anonymize_field and anonymize_talent_profile have no handler, the call
\* ends with the exception and returns nothing
TalentDetectorRaises ==
    /\ pc = "fields"
    /\ \E field_path \in todo : CallsDetector(Anonymized, ParseParts(field_path))
    /\ pc' = "raised"
    /\ UNCHANGED <<processed_paths, heap, ref, config, args, todo, sh_i, input0,
                   pass, first, result, op, xpattern, xpaths>>

\* analyzer.analyze raises inside JSONAnonymizer.anonymize, after the deep
\* copy: no handler, the call ends with the exception and the copy is lost
JsonDetectorRaises ==
    /\ pc = "idle"
    /\ op = "JSONAnonymizer.anonymize"
    /\ JsonCallsDetector(CallerDoc)
    /\ ref' = deepcopy_target("caller")
    /\ pc' = "raised"
    /\ UNCHANGED <<processed_paths, heap, config, args, todo, sh_i, input0, pass,
                   first, result, op, xpattern, xpaths>>

NextDetector == Next \/ TalentDetectorRaises \/ JsonDetectorRaises

SpecDetector == Init /\ [][NextDetector]_vars

-----------------------------------------------------------------------------
(* _expand_array_paths on its own *)

TagLists == SeqsUpTo({Str(<<"he">>)}, MaxItems + 1)

\* documents with arrays at several depths, and with a list inside an item
ExpandDocs ==
    Docs
    \cup {Obj(<<Entry("core", Obj(<<Entry("tags", Arr(ts))>>)),
                Entry("items", Arr(<<Obj(<<Entry("sub", Arr(ts))>>)>>))>>) :
             ts \in TagLists}

ExpandPatterns ==
    {P_item_name, P_item_date, P_title, P_misc,
     <<SegAt("items", Star)>>,
     <<SegAt("misc", Star)>>,
     <<Seg("core"), SegAt("tags", Star)>>,
     <<Seg("core"), SegAt("tags", Star), Seg("x")>>,
     <<Seg("core"), SegAt("title", Star), Seg("x")>>,
     <<SegAt("core", Star), Seg("x")>>,
     <<SegAt("nokey", Star), Seg("x")>>,
     <<Seg("nokey"), SegAt("tags", Star)>>,
     <<Seg("misc"), SegAt("b", Star), Seg("c")>>,
     <<Seg("items"), SegAt("b", Star)>>,
     <<SegAt("items", Star), SegAt("sub", Star)>>,
     <<SegAt("items", 0), SegAt("sub", Star)>>}

InitExpand ==
    /\ \E d \in ExpandDocs, q \in ExpandPatterns :
          /\ heap = [caller |-> d, work |-> Null]
          /\ input0 = d
          /\ xpattern = q
    /\ config = NoConfig
    /\ args = NoArgs
    /\ op = "_expand_array_paths"
    /\ Idle

\* a call of _expand_array_paths(data, pattern)
Expand ==
    /\ pc = "idle"
    /\ op = "_expand_array_paths"
    /\ xpaths' = expand_array_paths(CallerDoc, xpattern)
    /\ pc' = "done"
    /\ UNCHANGED <<processed_paths, heap, ref, config, args, todo, sh_i, input0, pass, first, result,
                   op, xpattern>>

\* the pattern as the one entry of always_anonymize_fields: the loop of
\* anonymize_talent_profile over the paths it was expanded to
AnonymizeExpanded ==
    /\ pc = "done"
    /\ op = "_expand_array_paths"
    /\ LET RECURSIVE Each(_, _)
           Each(d, i) ==
               IF i > Len(xpaths) THEN d
               ELSE Each(anonymize_field(d, xpaths[i], configure_operators("redact")),
                         i + 1)
       IN  result' = Each(CallerDoc, 1)
    /\ pc' = "anonymized"
    /\ UNCHANGED <<processed_paths, heap, ref, config, args, todo, sh_i, input0, pass,
                   first, op, xpattern, xpaths>>

NextExpand ==
    \/ Expand
    \/ AnonymizeExpanded

SpecExpand == InitExpand /\ [][NextExpand]_vars

-----------------------------------------------------------------------------
(* EnhancedTalentProfileAnonymizer.  Paths are the strings the code builds  *)
(* (f"{path}.{key}", f"{path}[{i}]").  Field names are the keys of the      *)
(* documents below; what the patterns and the field-name lists of the       *)
(* default TalentProfileConfig say of each of them is tabulated.            *)

\* the exception of `self.anonymizer.anonymize_text(value)`: JSONAnonymizer
\* defines _anonymize_text and no anonymize_text
Raise == [raise |-> "AttributeError"]

\* the mark of a key in keys_to_remove
Removed == [removed |-> TRUE]

\* FieldRule(action, nested_fields): nested_fields in the order of the dict,
\* each name split at "."
FieldRule(action, nested_fields) == [action |-> action, nested_fields |-> nested_fields]

NestedField(name, action) == [name |-> name, action |-> action]

\* TalentProfileConfig.structure_rules (the default), for the structures the
\* documents here have
StructureRules ==
    "affiliation.awards" :>
        FieldRule("anonymize",
                  <<NestedField(<<"name">>, "anonymize"),
                    NestedField(<<"organization">>, "anonymize"),
                    NestedField(<<"description">>, "anonymize"),
                    NestedField(<<"date">>, "year_only"),
                    NestedField(<<"id">>, "preserve"),
                    NestedField(<<"type">>, "preserve"),
                    NestedField(<<"category">>, "preserve")>>)

NoRule == [action |-> "none", nested_fields |-> <<>>]

\* self.config.structure_rules.get(path)
StructureRuleGet(path) ==
    IF path \in DOMAIN StructureRules THEN StructureRules[path] ELSE NoRule

\* rule.nested_fields.get(field_name), "" when there is none
NestedFieldGet(rule, field_name) ==
    LET hits == {i \in 1..Len(rule.nested_fields) :
                    rule.nested_fields[i].name = <<field_name>>}
    IN  IF hits = {} THEN "" ELSE rule.nested_fields[CHOOSE i \in hits : TRUE].action

\* the TalentProfileConfig of the instance has the default patterns and
\* field-name lists (left None at construction); the other configuration of
\* the model has the four of them empty
DefaultLists == ~("lists" \in DOMAIN config) \/ config.lists = "default"

\* _matches_pattern(field_name, preserve_patterns): "*id", "level", "type"
MatchesPreservePattern(field_name) ==
    DefaultLists /\ field_name \in {"id", "level", "type", "institutionId", "userId"}

\* _matches_pattern(field_name, anonymize_patterns): "*name", "title",
\* "*Date", "institution*", "*By"
MatchesAnonymizePattern(field_name) ==
    DefaultLists /\ field_name \in {"name", "title", "date", "institutionId",
                                    "updatedBy", "createdBy"}

\* field_name.lower() in common_safe_fields: "id", "type", "level", "rank"
InCommonSafeFields(field_name) ==
    DefaultLists /\ field_name \in {"id", "level", "type", "rank"}

\* field_name.lower() in common_pii_fields: "name", "title", "date", "role"
InCommonPiiFields(field_name) ==
    DefaultLists /\ field_name \in {"name", "title", "date", "role"}

\* "date" in field_name.lower() or "time" in field_name.lower()
HasDateOrTime(field_name) == field_name \in {"date", "dateOfBirth", "updatedBy"}

\* field_name.lower().endswith("by")
EndsWithBy(field_name) == field_name \in {"updatedBy", "createdBy"}

\* field_name.lower() in ["userid", "user_id", "employeeid", "employee_id"]
IsUserOrEmployeeId(field_name) == field_name \in {"userId"}

\* _determine_action with the anonymize patterns tried before the preserve
\* patterns
determine_action_anonymize_first(field_name, field_path, value, custom_rules, parent_rule) ==
    IF field_path \in DOMAIN custom_rules THEN custom_rules[field_path]
    ELSE IF field_path \in DOMAIN StructureRules THEN StructureRules[field_path].action
    ELSE IF parent_rule # NoRule /\ NestedFieldGet(parent_rule, field_name) # ""
    THEN NestedFieldGet(parent_rule, field_name)
    ELSE IF MatchesAnonymizePattern(field_name) THEN "anonymize"
    ELSE IF MatchesPreservePattern(field_name) THEN "preserve"
    ELSE IF InCommonSafeFields(field_name) THEN "preserve"
    ELSE IF InCommonPiiFields(field_name) THEN "anonymize"
    ELSE IF HasDateOrTime(field_name) THEN "year_only"
    ELSE IF EndsWithBy(field_name) THEN "anonymize"
    ELSE IF IsUserOrEmployeeId(field_name) THEN "hash"
    ELSE "auto"

\* EnhancedTalentProfileAnonymizer._determine_action
determine_action(field_name, field_path, value, custom_rules, parent_rule) ==
    IF field_path \in DOMAIN custom_rules THEN custom_rules[field_path]
    ELSE IF field_path \in DOMAIN StructureRules THEN StructureRules[field_path].action
    ELSE IF parent_rule # NoRule /\ NestedFieldGet(parent_rule, field_name) # ""
    THEN NestedFieldGet(parent_rule, field_name)
    ELSE IF MatchesPreservePattern(field_name) THEN "preserve"
    ELSE IF MatchesAnonymizePattern(field_name) THEN "anonymize"
    ELSE IF InCommonSafeFields(field_name) THEN "preserve"
    ELSE IF InCommonPiiFields(field_name) THEN "anonymize"
    ELSE IF HasDateOrTime(field_name) THEN "year_only"
    ELSE IF EndsWithBy(field_name) THEN "anonymize"
    ELSE IF IsUserOrEmployeeId(field_name) THEN "hash"
    ELSE "auto"

\* value.strip() of a text of tokens
RECURSIVE Strip(_)
Strip(text) ==
    IF text = <<>> THEN text
    ELSE IF Head(text) = " " THEN Strip(Tail(text))
    ELSE IF text[Len(text)] = " " THEN Strip(SubSeq(text, 1, Len(text) - 1))
    ELSE text

\* value.isupper() and value.replace("_", "").replace("-", "").isalnum()
LooksLikeCode(text) == Len(text) = 1 /\ text[1] \in {"E7", "AWD001"}

\* value.replace(".", "").replace("-", "").isdigit()
IsDigits(text) ==
    /\ \A i \in 1..Len(text) : text[i] \in {"1995", "2001", "06", "3", "9", "-", "."}
    /\ \E i \in 1..Len(text) : text[i] \in {"1995", "2001", "06", "3", "9"}

\* any(term in field_lower for term in ["description", "title", "name", ...])
HasNameHint(field_name) == field_name \in {"name", "title"}

\* EnhancedTalentProfileAnonymizer._should_anonymize_string
should_anonymize_string(field_name, value) ==
    IF value = <<>> \/ TextLen(Strip(value)) < 3 THEN FALSE
    ELSE IF LooksLikeCode(value) THEN FALSE
    ELSE IF IsDigits(value) THEN FALSE
    ELSE IF Len(value) = 1 /\ value[1] \in {"true", "false", "yes", "no", "y", "n",
                                            "active", "inactive"}
    THEN FALSE
    ELSE IF EntityTypesIn(value) # {} THEN TRUE
    ELSE HasNameHint(field_name)

\* EnhancedTalentProfileAnonymizer._anonymize_value
anonymize_value(value) == Raise

\* EnhancedTalentProfileAnonymizer._hash_value
hash_value(value) == Str(<<"HASH_">> \o value.s)

\* EnhancedTalentProfileAnonymizer._extract_year
extract_year(value) == Str(YearOf(value.s))

\* EnhancedTalentProfileAnonymizer._categorize_value
categorize_value(value) ==
    IF IsNum(value) THEN Str(LevelOf(value.n))
    ELSE IF IsStr(value) /\ ParsesAsInt(value.s) THEN Str(LevelOf(IntOf(value.s)))
    ELSE Str(<<"[LEVEL]">>)

\* EnhancedTalentProfileAnonymizer._apply_field_action
apply_field_action(data, field_name, action) ==
    IF ~ObjHas(data, field_name) THEN data
    ELSE LET value == ObjGet(data, field_name) IN
         IF action = "anonymize" /\ IsStr(value)
         THEN (IF anonymize_value(value) = Raise THEN Raise
               ELSE ObjSet(data, field_name, anonymize_value(value)))
         ELSE IF action = "remove" THEN ObjDel(data, field_name)
         ELSE IF action = "hash" /\ IsStr(value)
         THEN ObjSet(data, field_name, hash_value(value))
         ELSE IF action = "year_only" /\ IsStr(value)
         THEN ObjSet(data, field_name, extract_year(value))
         ELSE IF action = "categorize"
         THEN ObjSet(data, field_name, categorize_value(value))
         ELSE data

RECURSIVE apply_nested_field_rule(_, _, _)
\* EnhancedTalentProfileAnonymizer._apply_nested_field_rule, parts being
\* field_path.split(".")
apply_nested_field_rule(data, parts, action) ==
    IF ~(IsObj(data) /\ ObjHas(data, Head(parts))) THEN data
    ELSE IF Len(parts) = 1 THEN apply_field_action(data, parts[1], action)
    ELSE LET inner == apply_nested_field_rule(ObjGet(data, Head(parts)),
                                              Tail(parts), action)
         IN  IF inner = Raise THEN Raise ELSE ObjSet(data, Head(parts), inner)

\* f"{path}.{key}" if path else key
KeyPath(path, key) == IF path = "" THEN key ELSE path \o "." \o key

\* f"{path}[{i}]"
ItemPath(path, i) == path \o "[" \o ToString(i) \o "]"

\* the result of a step: the new value (or Raise) and self._processed_paths
Step(v, seen) == [v |-> v, seen |-> seen]

RECURSIVE process_structure(_, _, _, _, _), process_dict(_, _, _, _, _),
          process_list(_, _, _, _, _), process_dict_in_list(_, _, _, _, _, _),
          ProcessKey(_, _, _, _, _, _)

\* the body of the loop of _process_dict for one key
ProcessKey(key, value, path, custom_rules, parent_rule, seen) ==
    LET current_path == KeyPath(path, key) IN
    IF current_path \in seen THEN Step(value, seen)
    ELSE
    LET seen1  == seen \cup {current_path}
        action == determine_action(key, current_path, value, custom_rules, parent_rule)
        nested == IsObj(value) \/ IsArr(value)
    IN  IF action = "remove" THEN Step(Removed, seen1)
        ELSE IF action = "preserve"
        THEN (IF nested
              THEN process_structure(value, current_path, custom_rules, parent_rule, seen1)
              ELSE Step(value, seen1))
        ELSE IF action = "anonymize"
        THEN (IF IsStr(value) THEN Step(anonymize_value(value), seen1)
              ELSE IF nested
              THEN process_structure(value, current_path, custom_rules, parent_rule, seen1)
              ELSE Step(value, seen1))
        ELSE IF action = "hash"
        THEN Step(IF IsStr(value) THEN hash_value(value) ELSE value, seen1)
        ELSE IF action = "year_only"
        THEN Step(IF IsStr(value) THEN extract_year(value) ELSE value, seen1)
        ELSE IF action = "categorize" THEN Step(categorize_value(value), seen1)
        ELSE IF action = "auto"
        THEN (IF IsStr(value)
              THEN Step(IF should_anonymize_string(key, value.s)
                        THEN anonymize_value(value) ELSE value, seen1)
              ELSE IF nested
              THEN process_structure(value, current_path, custom_rules,
                                     StructureRuleGet(current_path), seen1)
              ELSE Step(value, seen1))
        ELSE Step(value, seen1)

\* EnhancedTalentProfileAnonymizer._process_dict
process_dict(data, path, custom_rules, parent_rule, seen) ==
    LET RECURSIVE Loop(_, _, _)
        Loop(entries, i, sn) ==
            IF i > Len(entries)
            THEN Step(Obj(SelectSeq(entries, LAMBDA e : e.v # Removed)), sn)
            ELSE LET r == ProcessKey(entries[i].k, entries[i].v, path,
                                     custom_rules, parent_rule, sn)
                 IN  IF r.v = Raise THEN r
                     ELSE Loop([entries EXCEPT ![i].v = r.v], i + 1, r.seen)
    IN  Loop(data.o, 1, seen)

\* EnhancedTalentProfileAnonymizer._process_list
process_list(data, path, custom_rules, parent_rule, seen) ==
    LET RECURSIVE Loop(_, _, _)
        Loop(items, i, sn) ==
            IF i > Len(items) THEN Step(Arr(items), sn)
            ELSE LET item == items[i]
                     r == IF IsObj(item)
                          THEN process_dict_in_list(item, path, i - 1, custom_rules,
                                                    parent_rule, sn)
                          ELSE IF IsArr(item)
                          THEN process_list(item, ItemPath(path, i - 1), custom_rules,
                                            parent_rule, sn)
                          ELSE IF IsStr(item) /\ should_anonymize_string(path, item.s)
                          THEN Step(anonymize_value(item), sn)
                          ELSE Step(item, sn)
                 IN  IF r.v = Raise THEN r
                     ELSE Loop([items EXCEPT ![i] = r.v], i + 1, r.seen)
    IN  Loop(data.a, 1, seen)

\* EnhancedTalentProfileAnonymizer._process_dict_in_list
process_dict_in_list(item, list_path, index, custom_rules, parent_rule, seen) ==
    LET structure_rule == StructureRuleGet(list_path)
        fields == structure_rule.nested_fields
        InRules(key) == \E j \in 1..Len(fields) : fields[j].name = <<key>>
        RECURSIVE Rules1(_, _)
        \* the loop over structure_rule.nested_fields.items()
        Rules1(d, j) ==
            IF j > Len(fields) \/ d = Raise THEN d
            ELSE Rules1(IF Len(fields[j].name) > 1
                        THEN apply_nested_field_rule(d, fields[j].name, fields[j].action)
                        ELSE apply_field_action(d, fields[j].name[1], fields[j].action),
                        j + 1)
        RECURSIVE Rest(_, _, _)
        \* the loop over the remaining fields of the item
        Rest(entries, i, sn) ==
            IF i > Len(entries) THEN Step(Obj(entries), sn)
            ELSE LET key == entries[i].k
                     value == entries[i].v
                     r == IF InRules(key) THEN Step(value, sn)
                          ELSE IF IsObj(value) \/ IsArr(value)
                          THEN process_structure(value,
                                   KeyPath(ItemPath(list_path, index), key),
                                   custom_rules, structure_rule, sn)
                          ELSE IF IsStr(value) /\ should_anonymize_string(key, value.s)
                          THEN Step(anonymize_value(value), sn)
                          ELSE Step(value, sn)
                 IN  IF r.v = Raise THEN r
                     ELSE Rest([entries EXCEPT ![i].v = r.v], i + 1, r.seen)
    IN  IF structure_rule # NoRule /\ fields # <<>>
        THEN LET ruled == Rules1(item, 1) IN
             IF ruled = Raise THEN Step(Raise, seen) ELSE Rest(ruled.o, 1, seen)
        ELSE process_dict(item, ItemPath(list_path, index), custom_rules,
                          parent_rule, seen)

\* EnhancedTalentProfileAnonymizer._process_structure
process_structure(data, path, custom_rules, parent_rule, seen) ==
    IF IsObj(data) THEN process_dict(data, path, custom_rules, parent_rule, seen)
    ELSE IF IsArr(data) THEN process_list(data, path, custom_rules, parent_rule, seen)
    ELSE Step(data, seen)

RECURSIVE enhanced_clean_empty_structures(_)
\* EnhancedTalentProfileAnonymizer._clean_empty_structures
enhanced_clean_empty_structures(data) ==
    LET Cleaned(value) ==
            IF IsEmptyValue(value) THEN value
            ELSE IF IsObj(value) \/ IsArr(value)
            THEN enhanced_clean_empty_structures(value)
            ELSE value
        Kept(value) == ~(value = Str(<<>>) \/ value = Null
                         \/ (IsObj(value) /\ value.o = <<>>)
                         \/ (IsArr(value) /\ value.a = <<>>))
    IN  IF IsObj(data)
        THEN Obj(SelectSeq([i \in 1..Len(data.o) |->
                               [k |-> data.o[i].k, v |-> Cleaned(data.o[i].v)]],
                           LAMBDA e : Kept(e.v)))
        ELSE IF IsArr(data)
        THEN Arr(SelectSeq([i \in 1..Len(data.a) |-> Cleaned(data.a[i])], Kept))
        ELSE data

RECURSIVE PathStr(_)
\* a concrete path as the string the code builds for it
PathStr(path) ==
    IF Len(path) = 1 THEN PartStr(path[1])
    ELSE PartStr(path[1]) \o "." \o PathStr(Tail(path))

AwardKinds ==
    {Obj(<<Entry("id", Str(<<"AWD001">>)), Entry("date", Str(<<"2001", "-", "06">>))>>),
     Obj(<<Entry("id", Str(<<"AWD001">>)), Entry("name", Str(<<"elderly">>))>>),
     Obj(<<Entry("id", Str(<<"AWD001">>)), Entry("note", Str(<<"he">>)),
           Entry("sub", Obj(<<Entry("id", Str(<<"E7">>))>>))>>)}

CoreKinds ==
    {Obj(<<Entry("id", Str(<<"E7">>))>>),
     Obj(<<Entry("id", Str(<<"E7">>)),
           Entry("title", Str(<<"elderly", " ", "engineer">>))>>),
     Obj(<<Entry("id", Str(<<"E7">>)), Entry("level", Num(3)),
           Entry("tags", Arr(<<Str(<<"he">>), Arr(<<Str(<<"E7">>)>>)>>))>>)}

\* profiles with a core object and the affiliation.awards array
EnhancedDocs ==
    {Obj(<<Entry("core", c),
           Entry("affiliation", Obj(<<Entry("awards", Arr(awards))>>))>>) :
        c \in CoreKinds, awards \in SeqsUpTo(AwardKinds, MaxItems)}

P_award0_id == <<Seg("affiliation"), SegAt("awards", 0), Seg("id")>>
P_award0_date == <<Seg("affiliation"), SegAt("awards", 0), Seg("date")>>
P_award1_id == <<Seg("affiliation"), SegAt("awards", 1), Seg("id")>>
P_award0_sub_id == <<Seg("affiliation"), SegAt("awards", 0), Seg("sub"), Seg("id")>>

\* the fields a custom rule may name
CustomRulePaths ==
    {P_id, P_title, P_level, P_award0_id, P_award0_date, P_award1_id, P_award0_sub_id}

CustomActions == {"preserve", "hash", "year_only", "remove", "anonymize", "categorize"}

\* custom_rules: a dictionary from at most MaxRules paths to actions
CustomRuleSets ==
    UNION {[{PathStr(q) : q \in Q} -> CustomActions] :
              Q \in SubsetsUpTo(CustomRulePaths, MaxRules)}

InitEnhanced ==
    /\ \E d \in EnhancedDocs, rules \in CustomRuleSets :
          /\ heap = [caller |-> d, work |-> Null]
          /\ input0 = d
          /\ args = [custom_rules |-> rules]
    /\ config = NoConfig
    /\ op = "Enhanced.anonymize_talent_profile"
    /\ xpattern = <<>>
    /\ Idle

\* EnhancedTalentProfileAnonymizer.anonymize_talent_profile: the deep copy
\* and the reset of the cache
EnhancedBegin ==
    /\ pc = "idle"
    /\ op = "Enhanced.anonymize_talent_profile"
    /\ LET target == deepcopy_target("caller")
       IN  /\ heap' = [heap EXCEPT ![target] = heap["caller"]]
           /\ ref' = target
    /\ processed_paths' = {}
    /\ pc' = "process"
    /\ UNCHANGED <<config, args, todo, sh_i, input0, pass, first, result, op,
                   xpattern, xpaths>>

\* self._process_structure(anonymized, "", custom_rules or {}): it returns,
\* or the exception leaves anonymize_talent_profile
EnhancedProcess ==
    /\ pc = "process"
    /\ LET r == process_structure(heap[ref], "", args.custom_rules, NoRule,
                                  processed_paths)
       IN  /\ processed_paths' = r.seen
           /\ IF r.v = Raise
              THEN /\ result' = Raise
                   /\ pc' = "raised"
                   /\ UNCHANGED heap
              ELSE /\ heap' = [heap EXCEPT ![ref] = r.v]
                   /\ pc' = "clean"
                   /\ UNCHANGED result
    /\ UNCHANGED <<ref, config, args, todo, sh_i, input0, pass, first, op,
                   xpattern, xpaths>>

\* self._clean_empty_structures(anonymized); return anonymized
EnhancedCleanAndReturn ==
    /\ pc = "clean"
    /\ op = "Enhanced.anonymize_talent_profile"
    /\ heap' = [heap EXCEPT ![ref] = enhanced_clean_empty_structures(heap[ref])]
    /\ result' = enhanced_clean_empty_structures(heap[ref])
    /\ pc' = "done"
    /\ UNCHANGED <<processed_paths, ref, config, args, todo, sh_i, input0, pass,
                   first, op, xpattern, xpaths>>

NextEnhanced == EnhancedBegin \/ EnhancedProcess \/ EnhancedCleanAndReturn

SpecEnhanced == InitEnhanced /\ [][NextEnhanced]_vars

-----------------------------------------------------------------------------
(* The special transforms on their own: one field f holds the value, and    *)
(* the transform is applied to it as each anonymizer applies it.            *)

RECURSIVE Concat(_)
\* the pieces of a string, joined
Concat(pieces) == IF pieces = <<>> THEN <<>> ELSE Head(pieces) \o Concat(Tail(pieces))

MaxPieces == 4

\* strings made of years, parts of years, letters and separators
YearPieces ==
    {<<"1", "9", "9", "5">>, <<"2", "0">>, <<"9", "5">>, <<"0">>, <<"a">>, <<"-">>, <<"_">>}

YearTexts == {Concat(ps) : ps \in SeqsUpTo(YearPieces, MaxPieces)}

P_f == <<Seg("f")>>

\* the values a transform is given
MaxLevel == 7

\* numeric and non-numeric strings
LevelTexts == {Concat(ps) : ps \in SeqsUpTo({<<"-">>, <<"0">>, <<"3">>, <<"7">>, <<"a">>}, MaxPieces)}

P_gh == <<Seg("g"), Seg("h")>>

\* the strings given to the hash transform
HashTexts == SeqsUpTo({"E7", "AWD001"}, MaxPieces - 2)

TransformInputs(o) ==
    IF o = "hash" THEN {Str(t) : t \in HashTexts}
    ELSE IF o = "year_only" THEN {Str(t) : t \in YearTexts}
    ELSE IF o = "categorize"
    THEN {Num(n) : n \in -1..MaxLevel} \cup {Str(t) : t \in LevelTexts}
    ELSE {}

\* a profile with the value at f and, for the hash, another value at g.h
InitTransform ==
    /\ \E o \in {"hash", "year_only", "categorize"}, impl \in {"talent", "enhanced"} :
          \E v \in TransformInputs(o), w \in TransformInputs("hash") :
             /\ heap = [caller |-> IF o = "hash"
                                   THEN Obj(<<Entry("f", v),
                                              Entry("g", Obj(<<Entry("h", w)>>))>>)
                                   ELSE Obj(<<Entry("f", v)>>),
                        work |-> Null]
             /\ input0 = v
             /\ op = o
             /\ args = [impl |-> impl, second |-> "none"]
    /\ config = NoConfig
    /\ xpattern = <<>>
    /\ Idle

\* one entry of TalentProfileAnonymizer._apply_special_handling, for f
TalentTransform ==
    /\ pc = "idle"
    /\ args.impl = "talent"
    /\ LET out == apply_special_handling_entry(CallerDoc, P_f, op)
       IN  /\ heap' = [heap EXCEPT !["work"] = out]
           /\ result' = get_field_value(out, P_f)
    /\ pc' = "done"
    /\ UNCHANGED <<processed_paths, ref, config, args, todo, sh_i, input0, pass,
                   first, op, xpattern, xpaths>>

\* EnhancedTalentProfileAnonymizer._apply_field_action, for f
EnhancedTransform ==
    /\ pc = "idle"
    /\ args.impl = "enhanced"
    /\ LET out == apply_field_action(CallerDoc, "f", op)
       IN  /\ heap' = [heap EXCEPT !["work"] = out]
           /\ result' = get_field_value(out, P_f)
    /\ pc' = "done"
    /\ UNCHANGED <<processed_paths, ref, config, args, todo, sh_i, input0, pass,
                   first, op, xpattern, xpaths>>

\* another call of TalentProfileAnonymizer._apply_hash, for g.h
TalentHashAgain ==
    /\ pc = "done"
    /\ op = "hash"
    /\ pass = 1
    /\ LET out == apply_hash(CallerDoc, P_gh)
       IN  /\ heap' = [heap EXCEPT !["work"] = out]
           /\ result' = get_field_value(out, P_gh)
    /\ first' = result
    /\ pass' = 2
    /\ args' = [args EXCEPT !.second = "talent"]
    /\ UNCHANGED <<processed_paths, ref, config, pc, todo, sh_i, input0, op,
                   xpattern, xpaths>>

\* another call of EnhancedTalentProfileAnonymizer._apply_nested_field_rule,
\* for g.h
EnhancedHashAgain ==
    /\ pc = "done"
    /\ op = "hash"
    /\ pass = 1
    /\ LET out == apply_nested_field_rule(CallerDoc, <<"g", "h">>, "hash")
       IN  /\ heap' = [heap EXCEPT !["work"] = out]
           /\ result' = get_field_value(out, P_gh)
    /\ first' = result
    /\ pass' = 2
    /\ args' = [args EXCEPT !.second = "enhanced"]
    /\ UNCHANGED <<processed_paths, ref, config, pc, todo, sh_i, input0, op,
                   xpattern, xpaths>>

NextTransform ==
    TalentTransform \/ EnhancedTransform \/ TalentHashAgain \/ EnhancedHashAgain

SpecTransform == InitTransform /\ [][NextTransform]_vars

-----------------------------------------------------------------------------
(* Policies: an anonymizer is built from a configuration, then anonymizes   *)
(* the text of one string value.                                            *)

\* the keys of the operators and replacement_tokens maps of the model
MapKeys == {"AGE_BIAS", "GENDER_BIAS", "EMAIL_ADDRESS", "DEFAULT"}

\* a dict over MapKeys, "" standing for a key the dict does not hold
NoMap == [e \in MapKeys |-> ""]

MapOf(key, value) == [e \in MapKeys |-> IF e = key THEN value ELSE ""]

\* config_loader.create_anonymizer_from_config: the TalentProfileConfig it
\* builds from the YAML mapping, handed to TalentProfileAnonymizer
create_anonymizer_from_config(yaml_config) ==
    [preserve_fields         |-> IF "preserve_fields" \in DOMAIN yaml_config
                                 THEN yaml_config.preserve_fields ELSE {},
     always_anonymize_fields |-> IF "always_anonymize_fields" \in DOMAIN yaml_config
                                 THEN yaml_config.always_anonymize_fields ELSE {},
     special_handling_fields |-> yaml_config.special_handling_fields,
     anonymization_strategy  |-> yaml_config.anonymization_strategy,
     replacement_tokens      |-> yaml_config.replacement_tokens,
     operators               |-> yaml_config.operators,
     detect_bias             |-> yaml_config.detect_bias,
     detect_pii              |-> yaml_config.detect_pii,
     confidence_threshold    |-> yaml_config.confidence_threshold]

\* self.operators of TalentProfileAnonymizer.__init__: _configure_operators
\* with its "custom" branch, which reads profile_config.replacement_tokens
configured_operators(profile_config) ==
    LET tokens == profile_config.replacement_tokens
        held == {e \in MapKeys : tokens[e] # ""}
    IN  IF profile_config.anonymization_strategy = "custom"
        THEN (IF held # {}
              THEN [e \in held \cup {"DEFAULT"} |->
                       IF e = "DEFAULT" THEN <<>> ELSE <<tokens[e]>>]
              ELSE [DEFAULT |-> <<>>])
        ELSE configure_operators(profile_config.anonymization_strategy)

\* the texts given to an anonymizer
PolicyTexts == {<<"elderly">>, <<"x@y.org">>, <<"he", "engineer">>, <<"elderly", "x@y.org">>}

\* the YAML mappings: well-formed ones, and ones with an unknown strategy,
\* operator name or special-handling action, or a threshold outside [0, 1]
\* (confidence_threshold in tenths)
YamlConfigs ==
    [anonymization_strategy  : {"redact", "replace", "custom", "shred"},
     operators               : {NoMap, MapOf("AGE_BIAS", "keep"), MapOf("AGE_BIAS", "replace"),
                                MapOf("EMAIL_ADDRESS", "redact"), MapOf("AGE_BIAS", "shred")},
     replacement_tokens      : {NoMap, MapOf("AGE_BIAS", "[SENIOR]")},
     special_handling_fields : {<<>>, <<Rule("hash", P_id, "hash")>>,
                                <<Rule("shuffle", P_id, "shuffle")>>},
     detect_bias             : {TRUE},
     detect_pii              : {TRUE, FALSE},
     confidence_threshold    : {7, 15}]

\* the keyword arguments AnonymizerConfig is constructed with: the defaults,
\* and a threshold outside [0, 1], a batch size below 1, an unknown bias
\* category and an unknown operator name
ConfigDicts ==
    [detect_bias          : BOOLEAN,
     detect_pii           : BOOLEAN,
     bias_categories      : {{}, {"age"}, {"invalid_category"}},
     confidence_threshold : {7, 15},
     operators            : {JsonOperators, [DEFAULT |-> "keep"], [PERSON |-> "replace"],
                             [DEFAULT |-> "shred"]},
     replacements         : {JsonReplacements, [PERSON |-> <<"[PERSON]">>]},
     batch_size           : {100, -1}]

\* the documents given to JSONAnonymizer.anonymize with keys_to_anonymize
KeyDocs ==
    {Obj(<<Entry("name", Str(<<n>>)), Entry("names", Str(<<"elderly">>)),
           Entry("user", Obj(<<Entry("name", Str(<<"he">>)), Entry("email", Str(<<m>>))>>)),
           Entry("tags", Arr(<<Str(<<"he">>)>>))>>) :
        n \in {"he", "engineer"}, m \in {"x@y.org", "soon"}}

\* the key paths of keys_to_anonymize, by their pieces
KeyPaths ==
    {<<"name">>, <<"user">>, <<"tags">>, <<"user", ".", "name">>, <<"user", "/", "email">>,
     <<"user", "->", "email">>}

\* JSONAnonymizer._parse_key_paths: key.replace("/", ".").replace("->", "."),
\* and None for no keys
parse_key_paths(keys) ==
    IF keys = {} THEN NoKeys
    ELSE KeySet({[i \in 1..Len(key) |-> IF key[i] \in {"/", "->"} THEN "." ELSE key[i]] :
                    key \in keys})

InitPolicy ==
    /\ \/ \E y \in YamlConfigs, t \in PolicyTexts :
             /\ args = [kind |-> "talent", yaml |-> y]
             /\ input0 = Str(t)
             /\ heap = [caller |-> Null, work |-> Null]
       \/ \E d \in ConfigDicts, t \in PolicyTexts :
             /\ args = [kind |-> "json", data |-> d, keys |-> {}]
             /\ input0 = Obj(<<Entry("text", Str(t))>>)
             /\ heap = [caller |-> input0, work |-> Null]
       \/ \E doc \in KeyDocs, keys \in SubsetsUpTo(KeyPaths, MaxRules) :
             /\ args = [kind |-> "json", data |-> AnonymizerConfigDefault, keys |-> keys]
             /\ input0 = doc
             /\ heap = [caller |-> input0, work |-> Null]
    /\ config = NoConfig
    /\ op = "anonymize"
    /\ xpattern = <<>>
    /\ Idle

\* create_anonymizer_from_config(config_path)
CreateAnonymizerFromConfig ==
    /\ pc = "idle"
    /\ args.kind = "talent"
    /\ config' = create_anonymizer_from_config(args.yaml)
    /\ pc' = "built"
    /\ UNCHANGED <<processed_paths, heap, ref, args, todo, sh_i, input0, pass,
                   first, result, op, xpattern, xpaths>>

\* TalentProfileAnonymizer._anonymize_text of the anonymizer built
TalentAnonymizeText ==
    /\ pc = "built"
    /\ args.kind = "talent"
    /\ result' = Str(anonymize_text(input0.s, configured_operators(config)))
    /\ pc' = "done"
    /\ UNCHANGED <<processed_paths, heap, ref, config, args, todo, sh_i, input0,
                   pass, first, op, xpattern, xpaths>>

\* AnonymizerConfig(**config_dict), also from_dict and from_yaml: the fields
\* as given (the dataclass has no __post_init__, validate() is not called)
ConstructAnonymizerConfig ==
    /\ pc = "idle"
    /\ args.kind = "json"
    /\ config' = args.data
    /\ pc' = "configured"
    /\ UNCHANGED <<processed_paths, heap, ref, args, todo, sh_i, input0, pass,
                   first, result, op, xpattern, xpaths>>

\* the categories BiasRecognizerFactory.create_recognizer knows
RecognizerCategories == {"age", "gender"}

\* JSONAnonymizer(config): _setup_engines; create_recognizer raises
\* ValueError for a category it does not know
ConstructJSONAnonymizer ==
    /\ pc = "configured"
    /\ pc' = IF config.detect_bias /\ ~(config.bias_categories \subseteq RecognizerCategories)
             THEN "raised" ELSE "built"
    /\ UNCHANGED <<processed_paths, heap, ref, config, args, todo, sh_i, input0,
                   pass, first, result, op, xpattern, xpaths>>

\* JSONAnonymizer.anonymize(data, keys_to_anonymize) for a dict
JsonAnonymizeKeys ==
    /\ pc = "built"
    /\ args.kind = "json"
    /\ LET target == deepcopy_target("caller")
           done   == anonymize_recursive(config, CallerDoc, parse_key_paths(args.keys), <<>>)
       IN  /\ ref' = target
           /\ heap' = [heap EXCEPT ![target] = done]
           /\ result' = done
    /\ pc' = "done"
    /\ UNCHANGED <<processed_paths, config, args, todo, sh_i, input0, pass, first,
                   op, xpattern, xpaths>>

NextPolicy ==
    \/ CreateAnonymizerFromConfig
    \/ TalentAnonymizeText
    \/ ConstructAnonymizerConfig
    \/ ConstructJSONAnonymizer
    \/ JsonAnonymizeKeys

SpecPolicy == InitPolicy /\ [][NextPolicy]_vars

-----------------------------------------------------------------------------
(* utils.deep_set and utils.deep_get.  A path is the list of its components, *)
(* each the key of a dict or the index of a list; the keys of the documents  *)
(* of this section are components too, since deep_set stores an integer      *)
(* component as the key of a dict when the container it meets is a dict.     *)

Key(name) == [key |-> name]

Index(i) == [idx |-> i]

\* isinstance(component, int)
IsIndex(component) == "idx" \in DOMAIN component

\* while len(current) <= component: current.append(filler)
PadTo(items, component, filler) ==
    IF Len(items) > component.idx THEN items
    ELSE items \o [i \in 1..(component.idx + 1 - Len(items)) |-> filler]

RECURSIVE DeepSetFrom(_, _, _)
\* deep_set from the container `current` on: the loop over components[:-1],
\* which leaves `current` where it is when the component does not fit it, and
\* the assignment of the last component
DeepSetFrom(current, components, value) ==
    LET component == Head(components) IN
    IF Len(components) = 1
    THEN IF IsObj(current) THEN ObjSet(current, component, value)
         ELSE IF IsArr(current) /\ IsIndex(component)
         THEN Arr([PadTo(current.a, component, Null)
                      EXCEPT ![component.idx + 1] = value])
         ELSE current
    ELSE IF IsObj(current)
    THEN LET child == IF ObjHas(current, component) THEN ObjGet(current, component)
                      ELSE IF IsIndex(components[2]) THEN Arr(<<>>) ELSE EmptyObj
         IN  ObjSet(current, component, DeepSetFrom(child, Tail(components), value))
    ELSE IF IsArr(current) /\ IsIndex(component)
    THEN LET padded == PadTo(current.a, component, EmptyObj)
         IN  Arr([padded EXCEPT ![component.idx + 1] =
                     DeepSetFrom(padded[component.idx + 1], Tail(components), value)])
    ELSE DeepSetFrom(current, Tail(components), value)

\* utils.deep_set(data, path, value) with the path given as a list; the
\* result is data after the call
deep_set(data, components, value) ==
    IF components = <<>> THEN data ELSE DeepSetFrom(data, components, value)

RECURSIVE deep_get(_, _)
\* utils.deep_get(data, path) with the path given as a list
deep_get(current, components) ==
    IF components = <<>> THEN current
    ELSE LET component == Head(components) IN
         IF IsObj(current) /\ ObjHas(current, component)
         THEN deep_get(ObjGet(current, component), Tail(components))
         ELSE IF IsArr(current) /\ IsIndex(component)
                 /\ component.idx < Len(current.a)
         THEN deep_get(current.a[component.idx + 1], Tail(components))
         ELSE Null

\* longest path
MaxDepth == 3

\* largest index of a path
MaxIndex == 1

Components == {Key("a"), Key("b")} \cup {Index(i) : i \in 0..MaxIndex}

DeepPaths == SeqsUpTo(Components, MaxDepth) \ {<<>>}

DeepDocs ==
    {EmptyObj,
     Obj(<<Entry(Key("a"), Str(<<"x">>))>>),
     Obj(<<Entry(Key("a"), EmptyObj)>>),
     Obj(<<Entry(Key("a"), Obj(<<Entry(Key("b"), Str(<<"x">>))>>))>>),
     Obj(<<Entry(Key("a"), Arr(<<>>))>>),
     Obj(<<Entry(Key("a"), Arr(<<Str(<<"x">>)>>))>>),
     Obj(<<Entry(Key("a"), Arr(<<Obj(<<Entry(Key("b"), Num(1))>>),
                                 Obj(<<Entry(Key("b"), Num(2))>>)>>))>>),
     Obj(<<Entry(Key("a"), Arr(<<Arr(<<>>)>>))>>)}

DeepValues == {Str(<<"new">>), Num(99)}

InitDeep ==
    /\ \E data \in DeepDocs, path \in DeepPaths, value \in DeepValues :
          /\ heap = [caller |-> data, work |-> Null]
          /\ xpattern = path
          /\ input0 = value
    /\ op = "deep_set"
    /\ config = NoConfig
    /\ args = NoArgs
    /\ Idle

\* deep_set(data, path, value): data is changed in place
DeepSet ==
    /\ pc = "idle"
    /\ heap' = [heap EXCEPT !["caller"] = deep_set(heap["caller"], xpattern, input0)]
    /\ first' = heap["caller"]
    /\ pc' = "set"
    /\ UNCHANGED <<processed_paths, ref, config, args, todo, sh_i, input0, pass,
                   result, op, xpattern, xpaths>>

\* deep_get(data, path) after it
DeepGet ==
    /\ pc = "set"
    /\ result' = deep_get(heap["caller"], xpattern)
    /\ op' = "deep_get"
    /\ pc' = "done"
    /\ UNCHANGED <<processed_paths, heap, ref, config, args, todo, sh_i, input0,
                   pass, first, xpattern, xpaths>>

NextDeep ==
    \/ DeepSet
    \/ DeepGet

SpecDeep == InitDeep /\ [][NextDeep]_vars

-----------------------------------------------------------------------------
(* _determine_action on its own: one field name and path, the per-call       *)
(* rules, the rule of the parent structure, and an instance configured with  *)
(* the default patterns and field-name lists or with empty ones.             *)

ActionNames ==
    {"id", "name", "institutionId", "rank", "role", "dateOfBirth", "updatedBy",
     "createdBy", "userId", "note", "date"}

ActionPaths == {"affiliation.awards", "core.field"}

ActionCustomRules ==
    {<<>>, "core.field" :> "hash", "affiliation.awards" :> "remove"}

ActionParentRules == {NoRule, StructureRules["affiliation.awards"]}

InitAction ==
    /\ \E field_name \in ActionNames, field_path \in ActionPaths,
          custom_rules \in ActionCustomRules, parent_rule \in ActionParentRules,
          lists \in {"default", "empty"} :
          /\ args = [field_name |-> field_name, field_path |-> field_path,
                     custom_rules |-> custom_rules, parent_rule |-> parent_rule]
          /\ config = [lists |-> lists]
    /\ heap = [caller |-> Null, work |-> Null]
    /\ input0 = Str(<<"elderly">>)
    /\ op = "_determine_action"
    /\ xpattern = <<>>
    /\ Idle

\* one call of EnhancedTalentProfileAnonymizer._determine_action
DetermineAction ==
    /\ pc = "idle"
    /\ op = "_determine_action"
    /\ result' = Str(<<determine_action(args.field_name, args.field_path, input0,
                                        args.custom_rules, args.parent_rule)>>)
    /\ pc' = "done"
    /\ UNCHANGED <<processed_paths, heap, ref, config, args, todo, sh_i, input0,
                   pass, first, op, xpattern, xpaths>>

NextAction == DetermineAction

SpecAction == InitAction /\ [][NextAction]_vars

-----------------------------------------------------------------------------
(* Two threads call anonymize_talent_profile on one                          *)
(* EnhancedTalentProfileAnonymizer, each with its own document and rules.    *)
(* self._processed_paths belongs to the instance: both calls rebind it and   *)
(* both loops read and fill it.  A step of a thread is one turn of the loop  *)
(* of _process_dict over the keys of its document; pc, heap, sh_i, input0,   *)
(* args and result hold one value per thread.                                *)

Threads == {1, 2}

ConcurrentDocs ==
    {Obj(<<Entry("id", Str(<<"E7">>)),
           Entry("dateOfBirth", Str(<<"1995", "-", "06">>))>>),
     Obj(<<Entry("dateOfBirth", Str(<<"2001", "-", "06">>)),
           Entry("core", Obj(<<Entry("id", Str(<<"E7">>)),
                               Entry("date", Str(<<"soon">>))>>))>>),
     Obj(<<Entry("id", Str(<<"AWD001">>)), Entry("name", Str(<<"elderly">>))>>)}

ConcurrentRules == {<<>>, "id" :> "hash", "core.date" :> "year_only"}

\* what one call alone returns, or the exception that leaves it
Alone(profile, custom_rules) ==
    LET r == process_structure(profile, "", custom_rules, NoRule, {})
    IN  IF r.v = Raise THEN Raise ELSE enhanced_clean_empty_structures(r.v)

InitConcurrent ==
    /\ \E docs \in [Threads -> ConcurrentDocs], rules \in [Threads -> ConcurrentRules] :
          /\ input0 = docs
          /\ args = [t \in Threads |-> [custom_rules |-> rules[t]]]
    /\ heap = [t \in Threads |-> Null]
    /\ pc = [t \in Threads |-> "idle"]
    /\ sh_i = [t \in Threads |-> 1]
    /\ result = [t \in Threads |-> Null]
    /\ processed_paths = {}
    /\ config = NoConfig
    /\ op = "Enhanced.anonymize_talent_profile"
    /\ ref = "caller"
    /\ todo = {}
    /\ pass = 1
    /\ first = Null
    /\ xpattern = <<>>
    /\ xpaths = <<>>

\* a thread enters anonymize_talent_profile: the deep copy, and
\* self._processed_paths = set() on the shared instance
ThreadBegin ==
    \E t \in Threads :
        /\ pc[t] = "idle"
        /\ heap' = [heap EXCEPT ![t] = input0[t]]
        /\ processed_paths' = {}
        /\ pc' = [pc EXCEPT ![t] = "process"]
        /\ UNCHANGED <<ref, config, args, todo, sh_i, input0, pass, first, result,
                       op, xpattern, xpaths>>

\* one turn of the loop of _process_dict over the keys of the thread's
\* document, with the set the instance holds at that moment
ThreadVisit ==
    \E t \in Threads :
        /\ pc[t] = "process"
        /\ sh_i[t] <= Len(heap[t].o)
        /\ LET e == heap[t].o[sh_i[t]]
               r == ProcessKey(e.k, e.v, "", args[t].custom_rules, NoRule,
                               processed_paths)
           IN  /\ processed_paths' = r.seen
               /\ IF r.v = Raise
                  THEN /\ result' = [result EXCEPT ![t] = Raise]
                       /\ pc' = [pc EXCEPT ![t] = "raised"]
                       /\ UNCHANGED <<heap, sh_i>>
                  ELSE /\ heap' = [heap EXCEPT ![t] =
                                     Obj([heap[t].o EXCEPT ![sh_i[t]].v = r.v])]
                       /\ sh_i' = [sh_i EXCEPT ![t] = sh_i[t] + 1]
                       /\ UNCHANGED <<pc, result>>
        /\ UNCHANGED <<ref, config, args, todo, input0, pass, first, op, xpattern,
                       xpaths>>

\* the loop is over: the marked keys are deleted, the document is cleaned
\* and returned
ThreadReturn ==
    \E t \in Threads :
        /\ pc[t] = "process"
        /\ sh_i[t] > Len(heap[t].o)
        /\ LET out == enhanced_clean_empty_structures(
                          Obj(SelectSeq(heap[t].o, LAMBDA e : e.v # Removed)))
           IN  /\ heap' = [heap EXCEPT ![t] = out]
               /\ result' = [result EXCEPT ![t] = out]
        /\ pc' = [pc EXCEPT ![t] = "done"]
        /\ UNCHANGED <<processed_paths, ref, config, args, todo, sh_i, input0, pass,
                       first, op, xpattern, xpaths>>

NextConcurrent ==
    \/ ThreadBegin
    \/ ThreadVisit
    \/ ThreadReturn

SpecConcurrent == InitConcurrent /\ [][NextConcurrent]_vars

-----------------------------------------------------------------------------
(* BiasAnonymizer, the wrapper: it holds a TalentProfileAnonymizer and the   *)
(* name of its strategy, and rebuilds the anonymizer when a call names       *)
(* another strategy.  config is the profile_config of the anonymizer held,   *)
(* args the strategy the wrapper remembers, the configuration it was built   *)
(* with and the arguments of the last call.                                  *)

\* TalentProfileConfig(anonymization_strategy=strategy,
\* replacement_tokens=custom_tokens) after __post_init__: every list empty
TalentProfileConfig(strategy, custom_tokens) ==
    [preserve_fields         |-> {},
     always_anonymize_fields |-> {},
     special_handling_fields |-> <<>>,
     anonymization_strategy  |-> strategy,
     replacement_tokens      |-> custom_tokens,
     operators               |-> NoMap,
     detect_bias             |-> TRUE,
     detect_pii              |-> TRUE,
     confidence_threshold    |-> 7]

\* TalentProfileAnonymizer.anonymize_talent_profile as one function of the
\* anonymizer's configuration, the profile and the per-call lists (the
\* fields of this section are distinct leaves, so the order of the loop over
\* the set of fields does not show)
anonymize_talent_profile(profile_config, profile, custom_anonymize, custom_preserve) ==
    LET operators == configured_operators(profile_config)
        fields == get_fields_to_anonymize(profile_config, profile,
                                          custom_anonymize, custom_preserve)
        special == profile_config.special_handling_fields
        RECURSIVE Fields(_, _)
        Fields(d, left) ==
            IF left = {} THEN d
            ELSE LET field_path == CHOOSE q \in left : TRUE
                 IN  Fields(anonymize_field(d, field_path, operators),
                            left \ {field_path})
        RECURSIVE Special(_, _)
        Special(d, i) ==
            IF i > Len(special) THEN d
            ELSE Special(apply_special_handling_entry(d, special[i].path,
                                                      special[i].handling), i + 1)
    IN  clean_empty_structures(Special(Fields(profile, fields), 1))

\* most calls made on one wrapper
MaxCalls == 2

WrapperDocs ==
    {Obj(<<Entry("core", Obj(<<Entry("id", Str(<<"he">>)),
                               Entry("title", Str(t)),
                               Entry("level", Num(3))>>))>>) :
        t \in {<<"he", " ", "engineer">>, <<"elderly", " ", "engineer">>}}

\* the YAML policies a wrapper is built from with config_path
WrapperYamls ==
    [anonymization_strategy  : {"redact", "replace", "custom"},
     preserve_fields         : {{}, {P_id}},
     always_anonymize_fields : {{}, {P_title}},
     special_handling_fields : {<<>>, <<Rule("special", P_level, "categorize")>>},
     replacement_tokens      : {NoMap, MapOf("AGE_BIAS", "[SENIOR]")},
     operators               : {NoMap},
     detect_bias             : {TRUE},
     detect_pii              : {TRUE},
     confidence_threshold    : {7}]

WrapperTokens == {MapOf("GENDER_BIAS", "person"), MapOf("AGE_BIAS", "[SENIOR]")}

\* the wrapper's fields after a call, and what the call was
WrapperArgs(strategy, base, method, override, tokens, fields) ==
    [strategy |-> strategy, base |-> base, method |-> method,
     override |-> override, tokens |-> tokens, fields |-> fields]

\* BiasAnonymizer.__init__ with config_path, or with strategy
InitWrapper ==
    /\ \/ \E y \in WrapperYamls :
             /\ config = create_anonymizer_from_config(y)
             /\ args = WrapperArgs(y.anonymization_strategy,
                                   create_anonymizer_from_config(y),
                                   "__init__", "", NoMap, {})
       \/ \E strategy \in {"redact", "replace", "custom"} :
             /\ config = TalentProfileConfig(strategy, NoMap)
             /\ args = WrapperArgs(strategy, TalentProfileConfig(strategy, NoMap),
                                   "__init__", "", NoMap, {})
    /\ \E d \in WrapperDocs :
          /\ heap = [caller |-> d, work |-> Null]
          /\ input0 = d
    /\ op = "BiasAnonymizer"
    /\ pc = "built"
    /\ processed_paths = {}
    /\ ref = "caller"
    /\ todo = {}
    /\ sh_i = 1
    /\ pass = 1
    /\ first = Null
    /\ result = Null
    /\ xpattern = <<>>
    /\ xpaths = <<>>

\* BiasAnonymizer.anonymize(profile, fields_to_anonymize, strategy=strategy)
\* on a wrapper that holds the anonymizer of configuration held: the
\* anonymizer is rebuilt by _init_anonymizer(strategy) when the strategy is
\* given and is not the one remembered
WrapperAnonymizeCall(held, method, strategy, tokens, fields) ==
    LET changed == strategy # "" /\ strategy # args.strategy
        used == IF changed THEN TalentProfileConfig(strategy, NoMap) ELSE held
    IN  /\ pc \in {"built", "done"}
        /\ pass <= MaxCalls
        /\ config' = used
        /\ args' = WrapperArgs(IF changed THEN strategy ELSE args.strategy,
                               args.base, method, strategy, tokens, fields)
        /\ result' = anonymize_talent_profile(used, CallerDoc, fields, {})
        /\ pass' = pass + 1
        /\ pc' = "done"
        /\ UNCHANGED <<processed_paths, heap, ref, todo, sh_i, input0, first, op,
                       xpattern, xpaths>>

\* BiasAnonymizer.anonymize
WrapperAnonymize ==
    \E strategy \in {"", "redact", "replace", "custom"}, fields \in {{}, {P_id}} :
        WrapperAnonymizeCall(config, "anonymize", strategy, NoMap, fields)

\* BiasAnonymizer.anonymize_with_replace
AnonymizeWithReplace ==
    WrapperAnonymizeCall(config, "anonymize_with_replace", "replace", NoMap, {})

\* BiasAnonymizer.anonymize_with_redact
AnonymizeWithRedact ==
    WrapperAnonymizeCall(config, "anonymize_with_redact", "redact", NoMap, {})

\* BiasAnonymizer.anonymize_with_remove
AnonymizeWithRemove ==
    WrapperAnonymizeCall(config, "anonymize_with_remove", "redact", NoMap, {})

\* BiasAnonymizer.anonymize_with_custom: _init_anonymizer("custom",
\* custom_tokens), which leaves self.strategy as it is, then
\* self.anonymize(profile, strategy="custom")
AnonymizeWithCustom ==
    \E custom_tokens \in WrapperTokens :
        WrapperAnonymizeCall(TalentProfileConfig("custom", custom_tokens),
                             "anonymize_with_custom", "custom", custom_tokens, {})

NextWrapper ==
    \/ WrapperAnonymize
    \/ AnonymizeWithReplace
    \/ AnonymizeWithRedact
    \/ AnonymizeWithRemove
    \/ AnonymizeWithCustom

SpecWrapper == InitWrapper /\ [][NextWrapper]_vars

-----------------------------------------------------------------------------
(* The vocabulary of the properties: what a document holds at a concrete     *)
(* path, and which concrete paths a pattern matches.                         *)

Missing == [missing |-> TRUE]

RECURSIVE ValueAt(_, _)
\* D[p]: the value of document D at the concrete path p, Missing when the
\* path does not exist
ValueAt(v, path) ==
    IF path = <<>> THEN v
    ELSE LET seg == Head(path) IN
         IF ~(IsObj(v) /\ ObjHas(v, seg.k)) THEN Missing
         ELSE LET child == ObjGet(v, seg.k) IN
              IF seg.ix = NoIx THEN ValueAt(child, Tail(path))
              ELSE IF IsArr(child) /\ seg.ix >= 0 /\ seg.ix < Len(child.a)
              THEN ValueAt(child.a[seg.ix + 1], Tail(path))
              ELSE Missing

\* the concrete path is an instance of the pattern: [*] stands for any index
Matches(pat, path) ==
    /\ Len(pat) = Len(path)
    /\ \A i \in 1..Len(pat) :
          /\ pat[i].k = path[i].k
          /\ \/ pat[i].ix = path[i].ix
             \/ pat[i].ix = Star /\ path[i].ix >= 0

MatchesAny(pats, path) == \E q \in pats : Matches(q, path)

\* the concrete field paths of the documents
ConcretePaths ==
    {P_title, P_id, P_level}
    \cup {<<SegAt("items", i), Seg(f)>> : i \in 0..(MaxItems - 1),
                                          f \in {"name", "date", "level"}}

Returned == pc = "done" /\ op = "anonymize_talent_profile"

-----------------------------------------------------------------------------
(* The claims *)

\* C1: every concrete path that matches a preserve_fields pattern and that no
\* per-call override names has, in the returned document, the value it had in
\* the input, whatever other rules apply to the path or to a container above it.
C1_Preservation ==
    Returned =>
        \A q \in ConcretePaths :
            (/\ ValueAt(input0, q) # Missing
             /\ MatchesAny(config.preserve_fields, q)
             /\ ~MatchesAny(args.custom_anonymize \cup args.custom_preserve, q))
            => ValueAt(result, q) = ValueAt(input0, q)

\* the returned document holds no detected entity at the path (the field
\* may have been dropped)
AnonymizedAt(doc, q) ==
    LET v == ValueAt(doc, q) IN IsStr(v) => EntityTypesIn(v.s) = {}

\* C2: per-call overrides come first: a path listed in the per-call
\* fields_to_anonymize (and not in the per-call fields_to_preserve) is
\* anonymized even when preserve_fields lists it, and a path listed in the
\* per-call fields_to_preserve (and not in the per-call fields_to_anonymize) is
\* returned unchanged even when always_anonymize_fields covers it.
C2_OverridesFirst ==
    (Returned /\ pass = 1) =>
        /\ \A q \in args.custom_anonymize \ args.custom_preserve :
              AnonymizedAt(result, q)
        /\ \A q \in args.custom_preserve \ args.custom_anonymize :
              ValueAt(result, q) = ValueAt(input0, q)

\* what the action of a custom rule makes of a string field
ActionOutcome(action, v) ==
    CASE action = "hash"       -> hash_value(v)
      [] action = "year_only"  -> extract_year(v)
      [] action = "categorize" -> categorize_value(v)
      [] action = "remove"     -> Missing
      [] OTHER                 -> v

\* C3: when EnhancedTalentProfileAnonymizer.anonymize_talent_profile returns,
\* every string field that a custom rule names by its exact path holds what
\* the rule's action makes of it (preserve: the input value; hash, year_only,
\* categorize: the transformed value; remove: no value), items of an array
\* with a structure rule included.
C3_CustomRuleWins ==
    (pc = "done" /\ op = "Enhanced.anonymize_talent_profile") =>
        \A q \in CustomRulePaths :
            (/\ PathStr(q) \in DOMAIN args.custom_rules
             /\ args.custom_rules[PathStr(q)] # "anonymize"
             /\ IsStr(ValueAt(input0, q)))
            => ValueAt(result, q)
                   = ActionOutcome(args.custom_rules[PathStr(q)], ValueAt(input0, q))

\* C4: anonymizing the returned document again, with the same policy, returns
\* it unchanged.
C4_Idempotent == (Returned /\ pass = 2) => result = first

\* C5: the caller's document is, during and after every public operation,
\* what it was when the operation was called.
C5_InputNotMutated == CallerDoc = input0

\* a call of anonymize_talent_profile or JSONAnonymizer.anonymize returned a
\* document that differs from its input
C5_Witness ==
    /\ pc = "done"
    /\ op \in {"anonymize_talent_profile", "JSONAnonymizer.anonymize"}
    /\ result # input0
    /\ CallerDoc = input0

RECURSIVE NoEmpties(_)
\* no key holds "", [], {} or null, no array holds {} or [], at any depth
NoEmpties(v) ==
    IF IsObj(v)
    THEN \A i \in 1..Len(v.o) : ~IsEmptyValue(v.o[i].v) /\ NoEmpties(v.o[i].v)
    ELSE IF IsArr(v)
    THEN \A i \in 1..Len(v.a) :
            v.a[i] # EmptyObj /\ v.a[i] # Arr(<<>>) /\ NoEmpties(v.a[i])
    ELSE TRUE

\* C6: in the returned document no key has the value "", [], {} or null and
\* no array contains {} or [], at every depth.
C6_NoEmptyLeft == Returned => NoEmpties(result)

\* C7: a string field that anonymization empties, and that was longer than 5
\* characters, is returned as [REDACTED].
C7_Placeholder ==
    (Returned /\ pass = 1) =>
        \A q \in ConcretePaths :
            LET v == ValueAt(input0, q) IN
            (/\ q \in get_fields_to_anonymize(config, input0,
                          args.custom_anonymize, args.custom_preserve)
             /\ IsStr(v)
             /\ TextLen(v.s) > 5
             /\ anonymize_text(v.s, configure_operators(config.anonymization_strategy))
                    = <<>>)
            => ValueAt(result, q) = Str(<<"[REDACTED]">>)

\* the dotted path in front of the [*] of a pattern
BasePath(pat) ==
    [i \in 1..StarPos(pat) |-> IF i = StarPos(pat) THEN Seg(pat[i].k) ELSE pat[i]]

\* C8: for a pattern with one [*] whose base path resolves to an array of
\* length n, _expand_array_paths returns exactly the n paths
\* base[0] .. base[n-1] followed by the suffix, in this order.
C8_ExactExpansion ==
    (/\ pc = "done"
     /\ op = "_expand_array_paths"
     /\ StarCount(xpattern) = 1
     /\ IsArr(ValueAt(CallerDoc, BasePath(xpattern))))
    => /\ Len(xpaths) = Len(ValueAt(CallerDoc, BasePath(xpattern)).a)
       /\ \A i \in 1..Len(xpaths) :
             /\ Len(xpaths[i]) = Len(xpattern)
             /\ \A j \in 1..Len(xpattern) :
                   xpaths[i][j] = IF xpattern[j].ix = Star
                                  THEN [k |-> xpattern[j].k, ix |-> i - 1]
                                  ELSE xpattern[j]

\* C9: when the base path of a [*] pattern does not resolve to an array,
\* _expand_array_paths returns no path.
C9_NoArrayNoPaths ==
    (/\ pc = "done"
     /\ op = "_expand_array_paths"
     /\ StarCount(xpattern) = 1
     /\ ~IsArr(ValueAt(CallerDoc, BasePath(xpattern))))
    => xpaths = <<>>

\* the value is what the special action leaves
Handled(handling, v) ==
    \/ v = Missing
    \/ /\ handling = "year_only"
       /\ IsStr(v) /\ Len(v.s) = 1 /\ (IsYearToken(v.s[1]) \/ v.s[1] = "[YEAR]")
    \/ /\ handling = "hash"
       /\ IsStr(v) /\ Len(v.s) >= 1 /\ v.s[1] = "HASH_"
    \/ /\ handling = "categorize"
       /\ v \in {Str(<<"Direct">>), Str(<<"Close">>), Str(<<"Mid-level">>),
                 Str(<<"Distant">>), Str(<<"[LEVEL]">>)}

\* C10: a special_handling_fields entry whose path goes through [*] is
\* applied to the targeted field of every element of the array.
C10_SpecialOnElements ==
    (Returned /\ pass = 1) =>
        \A i \in 1..Len(config.special_handling_fields) :
            LET e == config.special_handling_fields[i] IN
            HasStar(e.path) =>
                \A q \in ConcretePaths :
                    (Matches(e.path, q) /\ Truthy(ValueAt(input0, q)))
                    => IF e.handling = "remove"
                       THEN ValueAt(result, q) = Missing
                       ELSE Handled(e.handling, ValueAt(result, q))

RECURSIVE WordRuns(_, _)
\* the maximal runs of word characters of a string, in order
WordRuns(s, run) ==
    IF s = <<>> THEN (IF run = <<>> THEN <<>> ELSE <<run>>)
    ELSE IF IsWordChar(Head(s)) THEN WordRuns(Tail(s), Append(run, Head(s)))
    ELSE (IF run = <<>> THEN <<>> ELSE <<run>>) \o WordRuns(Tail(s), <<>>)

\* a token of four digits of the form 19xx or 20xx
IsYearRun(r) ==
    /\ Len(r) = 4
    /\ \A i \in 1..4 : IsDigit(r[i])
    /\ <<r[1], r[2]>> \in {<<"1", "9">>, <<"2", "0">>}

\* the first such token of a string, or [YEAR]
FirstYear(s) ==
    LET runs == WordRuns(s, <<>>)
        hits == {i \in 1..Len(runs) : IsYearRun(runs[i])}
    IN  IF hits = {} THEN <<"[YEAR]">>
        ELSE runs[CHOOSE i \in hits : \A h \in hits : i <= h]

\* C11 as stated: the year-only transform of any string is its first token of
\* four digits of the form 19xx or 20xx, or [YEAR] when it has none.
C11_AnyString ==
    (pc = "done" /\ op = "year_only")
    => /\ IsStr(result)
       /\ Flatten(result.s) = FirstYear(input0.s)

\* C11, amended: the year-only transform of a string is its first token of four digits
\* of the form 19xx or 20xx (a token being a maximal run of word characters),
\* or [YEAR] when it has none; TalentProfileAnonymizer applies the transform
\* to non-empty strings, EnhancedTalentProfileAnonymizer to every string.
C11_YearOnly ==
    (/\ pc = "done"
     /\ op = "year_only"
     /\ args.impl = "enhanced" \/ input0.s # <<>>)
    => /\ IsStr(result)
       /\ Flatten(result.s) = FirstYear(input0.s)

\* "1995-2095" has been reduced to "1995", and "a1995" to [YEAR]
C11_Witness ==
    /\ pc = "done"
    /\ op = "year_only"
    /\ \/ /\ input0.s = <<"1", "9", "9", "5", "-", "2", "0", "9", "5">>
          /\ result = Str(<<"1995">>)
       \/ /\ input0.s = <<"a", "1", "9", "9", "5">>
          /\ result = Str(<<"[YEAR]">>)

\* the integer an input of the categorize transform denotes, if it denotes one
IsNumeric(v) == IsNum(v) \/ (IsStr(v) /\ ParsesAsInt(v.s))

NumberOf(v) == IF IsNum(v) THEN v.n ELSE IntOf(v.s)

\* C12: the categorize transform maps 1..2 to Direct, 3..4 to Close, 5..6 to
\* Mid-level and larger integers to Distant, given as a number or a numeric
\* string, and maps every other input, zero and the negative integers
\* included, to [LEVEL]; it never leaves the raw value in place.
C12_Categorize ==
    (pc = "done" /\ op = "categorize")
    => result = IF IsNumeric(input0) /\ NumberOf(input0) >= 1
                THEN Str(LevelOf(NumberOf(input0)))
                ELSE Str(<<"[LEVEL]">>)

\* the string hashed by the second call
SecondInput == get_field_value(heap["caller"], P_gh)

\* HASH_ followed by a digest
HasHashForm(v) == IsStr(v) /\ v.s # <<>> /\ v.s[1] = "HASH_"

\* the two calls have hashed their strings
Hashed == pc = "done" /\ op = "hash" /\ pass = 2

RECURSIVE ByOperators(_, _, _)
\* a text with each detected span transformed by the operator the operators
\* map names for its category
ByOperators(text, operators, tokens) ==
    IF text = <<>> THEN <<>>
    ELSE LET tok == Head(text)
             e == EntityType(tok)
         IN  (IF e = "NONE" \/ operators[e] = "keep" THEN <<tok>>
              ELSE IF operators[e] = "replace" THEN <<tokens[e]>>
              ELSE <<>>)
             \o ByOperators(Tail(text), operators, tokens)

\* C14: an anonymizer built by create_anonymizer_from_config transforms each
\* detected span by the operator that the policy's operators map names for
\* the span's category (keep, redact, or replace by its replacement token),
\* whatever the anonymization_strategy.
C14_OperatorsHonoured ==
    (/\ pc = "done"
     /\ args.kind = "talent"
     /\ \A e \in EntityTypesIn(input0.s) :
           \/ config.operators[e] \in {"keep", "redact"}
           \/ config.operators[e] = "replace" /\ config.replacement_tokens[e] # "")
    => result = Str(ByOperators(input0.s, config.operators, config.replacement_tokens))

\* the operator of the chain: the entry of the category, else the DEFAULT
\* entry, else removal
ChainOperator(operators, etype) ==
    IF etype \in DOMAIN operators THEN operators[etype]
    ELSE IF "DEFAULT" \in DOMAIN operators THEN operators["DEFAULT"]
    ELSE "remove"

RECURSIVE ByChain(_, _)
\* a text with each detected span transformed by the operator of the chain
ByChain(cfg, text) ==
    IF text = <<>> THEN <<>>
    ELSE LET tok == Head(text)
             etype == JsonEntityType(cfg, tok)
         IN  (IF etype = "NONE" THEN <<tok>>
              ELSE JsonApplyOperator(cfg, ChainOperator(cfg.operators, etype), etype, tok))
             \o ByChain(cfg, Tail(text))

\* JSONAnonymizer.anonymize has returned the document {"text": ...}
TextReturned ==
    /\ pc = "done"
    /\ args.kind = "json"
    /\ ObjHas(input0, "text")

\* C15: in JSONAnonymizer, every detected span is transformed by the entry of
\* config.operators for its category if there is one, else by the DEFAULT
\* entry, else, with no DEFAULT entry, it is removed.
C15_FallbackChain ==
    TextReturned => ObjGet(result, "text") = Str(ByChain(config, ObjGet(input0, "text").s))

\* OperatorTypes
ValidOperators == {"replace", "mask", "hash", "encrypt", "redact", "keep", "remove"}

\* what AnonymizerConfig.validate refuses
InvalidConfig(d) ==
    \/ d.confidence_threshold < 0 \/ d.confidence_threshold > 10
    \/ d.batch_size < 1
    \/ ~(d.bias_categories \subseteq RecognizerCategories)
    \/ \E e \in DOMAIN d.operators : d.operators[e] \notin ValidOperators

\* C16: constructing an AnonymizerConfig with a threshold outside [0, 1], a
\* batch size below 1, an unknown bias category or an unknown operator name
\* raises, so that no configuration object and no JSONAnonymizer exists for
\* invalid settings.
C16_InvalidConfigRefused ==
    (args.kind = "json" /\ InvalidConfig(args.data))
    => pc \notin {"configured", "built", "done"}

\* a policy with an unknown strategy, operator name or special-handling
\* action, or a threshold outside [0, 1]
MalformedPolicy(y) ==
    \/ y.anonymization_strategy \notin {"redact", "remove", "replace", "custom"}
    \/ \E e \in MapKeys : y.operators[e] \notin {"", "redact", "replace", "mask", "hash", "keep"}
    \/ \E i \in 1..Len(y.special_handling_fields) :
          y.special_handling_fields[i].handling \notin {"hash", "year_only", "categorize", "remove"}
    \/ y.confidence_threshold < 0 \/ y.confidence_threshold > 10

\* C17: a malformed talent-profile policy is refused: no TalentProfileAnonymizer
\* is built from it and no text is anonymized under it.
C17_MalformedPolicyRefused ==
    (args.kind = "talent" /\ MalformedPolicy(args.yaml))
    => pc \notin {"built", "done"}

\* C18: with detect_pii off, a text that holds PII only is returned unchanged,
\* and with detect_bias off, a text that holds bias terms only is.
C18_TogglesRespected ==
    TextReturned =>
        LET text == ObjGet(input0, "text").s
            types == EntityTypesIn(text)
        IN  /\ (~config.detect_pii /\ \A e \in types : ~IsBiasType(e))
               => ObjGet(result, "text") = Str(text)
            /\ (~config.detect_bias /\ \A e \in types : IsBiasType(e))
               => ObjGet(result, "text") = Str(text)

RECURSIVE PiecesOf(_)
\* a concrete path as the pieces of the string "user.name", "tags[0]"
PiecesOf(path) ==
    LET seg == Head(path)
        part == KeyChars(seg.k) \o
                (IF seg.ix = NoIx THEN <<>> ELSE <<"[", ToString(seg.ix), "]">>)
    IN  IF Len(path) = 1 THEN part ELSE part \o <<".">> \o PiecesOf(Tail(path))

\* the paths of the string values of the documents given with keys
KeyDocLeaves ==
    {<<Seg("name")>>, <<Seg("names")>>, <<Seg("user"), Seg("name")>>,
     <<Seg("user"), Seg("email")>>, <<SegAt("tags", 0)>>}

\* the path is a listed key path or lies beneath one
Listed(path, keys) ==
    \E key \in parse_key_paths(keys).keys :
        \/ PiecesOf(path) = key
        \/ StartsWith(PiecesOf(path), key \o <<".">>)
        \/ StartsWith(PiecesOf(path), key \o <<"[">>)

\* C19: when JSONAnonymizer.anonymize is called with keys_to_anonymize, the
\* value at every path that is neither a listed key path nor beneath one is
\* the input's, a sibling whose name starts with a listed key's name included.
C19_SelectiveFrame ==
    (pc = "done" /\ args.kind = "json" /\ args.keys # {})
    => \A path \in KeyDocLeaves :
          ~Listed(path, args.keys) => ValueAt(result, path) = ValueAt(input0, path)

\* C20: when the entity detector raises while a document is anonymized, the
\* call ends with the error: no document is returned, the partially
\* anonymized working copy included, and the caller's document is untouched.
C20_FailClosed ==
    pc = "raised" => /\ result = Null
                     /\ heap["caller"] = input0

\* the detector has raised after a field of the working copy was anonymized
C20_Witness ==
    /\ pc = "raised"
    /\ op = "anonymize_talent_profile"
    /\ heap["work"] # heap["caller"]
    /\ result = Null

\* the keys of an object, in order
KeysOf(d) == [i \in 1..Len(d.o) |-> d.o[i].k]

\* the strictly increasing maps from 1..m into 1..n
Increasing(m, n) ==
    {f \in [1..m -> 1..n] : \A i, j \in 1..m : i < j => f[i] < f[j]}

RECURSIVE OrderKept(_, _)
\* out is what is left of in after whole keys and whole elements were removed
\* and scalars rewritten: each object's keys are the input object's keys less
\* some, in the input's order; each array's elements come from elements of the
\* input array, in the input's order
OrderKept(out, in) ==
    IF IsObj(in)
    THEN /\ IsObj(out)
         /\ \E f \in Increasing(Len(out.o), Len(in.o)) :
               \A i \in 1..Len(out.o) :
                   /\ out.o[i].k = in.o[f[i]].k
                   /\ OrderKept(out.o[i].v, in.o[f[i]].v)
    ELSE IF IsArr(in)
    THEN /\ IsArr(out)
         /\ \E f \in Increasing(Len(out.a), Len(in.a)) :
               \A i \in 1..Len(out.a) : OrderKept(out.a[i], in.a[f[i]])
    ELSE ~IsObj(out) /\ ~IsArr(out)

\* C21: in the document anonymize_talent_profile returns, the keys of every
\* object and the surviving elements of every array are in the relative order
\* they had in the input; a container's length changes only by the removal of
\* whole keys or whole elements.
C21_OrderKept == Returned => OrderKept(result, input0)

\* a call that emptied and dropped the first element of an array and kept
\* the second, under the same keys in the same order
C21_Witness ==
    /\ Returned
    /\ KeysOf(input0) = <<"core", "misc">> /\ KeysOf(result) = <<"core", "misc">>
    /\ ObjGet(input0, "misc") = Arr(<<Str(<<"he">>), Num(1)>>)
    /\ ObjGet(result, "misc") = Arr(<<Num(1)>>)

RECURSIVE NothingCreated(_, _)
\* every key and every element of out stands where in has one: an object of
\* out has distinct keys, all of them keys of the input object, an array of
\* out is no longer than the input array and each of its elements stands for
\* one of the input's
NothingCreated(out, in) ==
    IF IsObj(out)
    THEN /\ IsObj(in)
         /\ \A i, j \in 1..Len(out.o) : out.o[i].k = out.o[j].k => i = j
         /\ \A i \in 1..Len(out.o) :
               /\ ObjHas(in, out.o[i].k)
               /\ NothingCreated(out.o[i].v, ObjGet(in, out.o[i].k))
    ELSE IF IsArr(out)
    THEN /\ IsArr(in)
         /\ Len(out.a) <= Len(in.a)
         /\ \A i \in 1..Len(out.a) :
               \E j \in 1..Len(in.a) : NothingCreated(out.a[i], in.a[j])
    ELSE TRUE

\* C22: every key path of the document anonymize_talent_profile returns is a
\* key path of the input: anonymization, special handling and cleanup create
\* no key, no intermediate object and no array element, and no object of the
\* output has a key twice.
C22_NothingCreated == Returned => NothingCreated(result, input0)

\* a call whose special handling names a field the document does not have,
\* and that changed the document elsewhere
C22_Witness ==
    /\ Returned
    /\ \E i \in 1..Len(config.special_handling_fields) :
          /\ config.special_handling_fields[i].path = P_level
          /\ config.special_handling_fields[i].handling = "categorize"
    /\ ValueAt(input0, P_level) = Missing
    /\ ValueAt(result, P_level) = Missing
    /\ result # input0

\* C23: after deep_set(data, path, v), deep_get(data, path) returns v, for
\* any nested document and any path of keys and non-negative indices, also
\* when containers on the way are missing or a value on the way is not a
\* container.
C23_SetThenGet == (pc = "done" /\ op = "deep_get") => result = input0

\* C24: _get_fields_to_anonymize returns no path that a preserve pattern
\* matches, the pattern being of the policy or of the call, also when of two
\* overlapping patterns one has [*] and the other a concrete index.
C24_PreserveWins ==
    (op = "anonymize_talent_profile" /\ pc \in {"fields", "special", "clean"}) =>
        \A q \in get_fields_to_anonymize(config, input0, args.custom_anonymize,
                                         args.custom_preserve) :
            ~MatchesAny(config.preserve_fields \cup args.custom_preserve, q)

\* the steps of the decision, in order: whether the step matches the field
\* of the call, and the action it gives
ActionSteps ==
    <<[hit |-> args.field_path \in DOMAIN args.custom_rules,
       action |-> IF args.field_path \in DOMAIN args.custom_rules
                  THEN args.custom_rules[args.field_path] ELSE ""],
      [hit |-> args.field_path \in DOMAIN StructureRules,
       action |-> StructureRuleGet(args.field_path).action],
      [hit |-> NestedFieldGet(args.parent_rule, args.field_name) # "",
       action |-> NestedFieldGet(args.parent_rule, args.field_name)],
      [hit |-> MatchesPreservePattern(args.field_name), action |-> "preserve"],
      [hit |-> MatchesAnonymizePattern(args.field_name), action |-> "anonymize"],
      [hit |-> InCommonSafeFields(args.field_name), action |-> "preserve"],
      [hit |-> InCommonPiiFields(args.field_name), action |-> "anonymize"],
      [hit |-> HasDateOrTime(args.field_name), action |-> "year_only"],
      [hit |-> EndsWithBy(args.field_name), action |-> "anonymize"],
      [hit |-> IsUserOrEmployeeId(args.field_name), action |-> "hash"],
      [hit |-> TRUE, action |-> "auto"]>>

ActionDone == pc = "done" /\ op = "_determine_action"

\* C25: _determine_action returns the action of the first step that matches,
\* the steps being tried in the order: per-call rule for the exact path,
\* structure rule, nested_fields entry of the parent's rule, preserve
\* name-pattern, anonymize name-pattern, common-safe name, common-PII name,
\* date/time name, name ending in "by", user or employee identifier, auto.  A
\* name matching a preserve and an anonymize pattern gets preserve, and auto
\* is returned only when no earlier step matches.
C25_FirstMatch ==
    ActionDone =>
        LET k == CHOOSE i \in 1..Len(ActionSteps) :
                     /\ ActionSteps[i].hit
                     /\ \A j \in 1..(i - 1) : ~ActionSteps[j].hit
        IN  result = Str(<<ActionSteps[k].action>>)

\* a name that a preserve pattern and an anonymize pattern both match, with
\* no rule for it: the decision is preserve
C25_Witness ==
    /\ ActionDone
    /\ MatchesPreservePattern(args.field_name)
    /\ MatchesAnonymizePattern(args.field_name)
    /\ \A i \in 1..3 : ~ActionSteps[i].hit
    /\ result = Str(<<"preserve">>)

\* C26: of two calls of anonymize_talent_profile that run at the same time
\* on one EnhancedTalentProfileAnonymizer, each on its own document, each
\* returns what it returns when it runs alone, however their field visits
\* interleave.
C26_Isolation ==
    \A t \in Threads :
        pc[t] \in {"done", "raised"} =>
            result[t] = Alone(input0[t], args[t].custom_rules)

\* a text that is one span of the category
SpanOf(etype) == <<CHOOSE tok \in {"elderly", "he", "x@y.org"} : EntityType(tok) = etype>>

\* C27: after any earlier calls of anonymize, anonymize_with_replace,
\* anonymize_with_redact and anonymize_with_custom, whatever strategy the
\* wrapper had, the anonymizer that served anonymize_with_custom(profile,
\* custom_tokens) turns a span of each category of custom_tokens into the
\* category's token.
C27_CustomTokensUsed ==
    (pc = "done" /\ op = "BiasAnonymizer" /\ args.method = "anonymize_with_custom") =>
        \A e \in MapKeys \ {"DEFAULT"} :
            args.tokens[e] # "" =>
                anonymize_text(SpanOf(e), configured_operators(config))
                    = <<args.tokens[e]>>

\* C28: a strategy given to one call of BiasAnonymizer.anonymize changes the
\* operators only: in that call and in every later one the anonymizer holds
\* the preserve_fields, always_anonymize_fields and special_handling_fields
\* the wrapper was configured with, and the document returned is the one
\* these lists give.
C28_ListsKept ==
    (pc = "done" /\ op = "BiasAnonymizer") =>
        /\ config.preserve_fields = args.base.preserve_fields
        /\ config.always_anonymize_fields = args.base.always_anonymize_fields
        /\ config.special_handling_fields = args.base.special_handling_fields
        /\ result = anonymize_talent_profile(
                        [config EXCEPT
                            !.preserve_fields = args.base.preserve_fields,
                            !.always_anonymize_fields = args.base.always_anonymize_fields,
                            !.special_handling_fields = args.base.special_handling_fields],
                        input0, args.fields, {})

\* C29: analyze_profile covers what anonymize_talent_profile anonymizes:
\* every concrete string field the policy has anonymized, those reached
\* through a [*] pattern of always_anonymize_fields included, is listed in
\* fields_with_bias when it holds a bias entity and in fields_with_pii when it
\* holds a PII entity, and risk_score is min(100, 3 per bias field + 5 per PII
\* field).
C29_AnalysisCovers ==
    (pc = "done" /\ op = "analyze_profile") =>
        /\ \A q \in get_fields_to_anonymize(config, input0, {}, {}) :
              LET v == ValueAt(input0, q) IN
              IsStr(v) =>
                  /\ (\E t \in EntityTypesIn(v.s) : IsBiasType(t))
                        => MatchesAny(result.fields_with_bias, q)
                  /\ (\E t \in EntityTypesIn(v.s) : ~IsBiasType(t))
                        => MatchesAny(result.fields_with_pii, q)
        /\ result.risk_score
              = RiskScore(result.fields_with_bias, result.fields_with_pii)

\* the concrete paths a pattern stands for: each [*] replaced by an index
InstancesOf(pattern) ==
    {[j \in 1..Len(pattern) |->
         IF pattern[j].ix = Star THEN SegAt(pattern[j].k, ixs[j]) ELSE pattern[j]] :
        ixs \in [1..Len(pattern) -> 0..MaxItems]}

\* C30: for a pattern of always_anonymize_fields with more than one [*],
\* every field of the document that the pattern stands for, each [*] taken at
\* every valid index, is anonymized; none is skipped.
C30_NestedWildcards ==
    (pc = "anonymized" /\ op = "_expand_array_paths" /\ StarCount(xpattern) > 1) =>
        \A q \in InstancesOf(xpattern) :
            IsStr(ValueAt(input0, q)) => AnonymizedAt(result, q)

=============================================================================
